---- MODULE Spec2Model ----
(***************************************************************************)
(* The blockchain API service:                                             *)
(*   the request schemas                 (blockchain/schemas.py)           *)
(*   the routes                          (blockchain/router.py)            *)
(*   the exception handlers              (core/exception_handler.py)       *)
(*   GetWalletBalanceUseCase.__call__    (blockchain/usecases.py)          *)
(*   GetContractEventsUseCase.__call__   (blockchain/usecases.py)          *)
(*   ABIService.get_abi                  (blockchain/abi_service.py)       *)
(*   Web3Service.get_balance_at_block    (blockchain/services.py)          *)
(*   Web3Service.get_contract_events     (blockchain/services.py)          *)
(*   Web3Service._fetch_logs_chunk       (blockchain/services.py)          *)
(*   CacheService                        (core/redis/providers.py)         *)
(* One contract on one network is queried; the network and the address are *)
(* therefore left out of the keys of the response and chunk caches, which  *)
(* otherwise keep their parts. Spec takes a gather and get_abi as one step *)
(* each, SpecTasks takes the gather task by task, SpecAbi takes get_abi    *)
(* call by call, SpecHttp takes a request from its validation to its HTTP  *)
(* response, SpecFair is SpecTasks with a fair event loop, SpecPair serves *)
(* two requests for the same events concurrently.                          *)
(***************************************************************************)
EXTENDS Integers, Sequences, FiniteSets, TLC

\* ------------------------------------------------------------ constants
\* services.py:144, chunk_size = 2000
chunk_size == 2000
\* services.py:149, batch_size = 100
batch_size == 100
\* services.py:197, if empty_chunks_in_row >= 50
empty_threshold == 50
\* services.py:198, min(skip_multiplier * 2, 10)
max_skip_multiplier == 10

\* services.py:382, ttl=3600
logs_chunk_ttl == 3600
\* usecases.py:163, ttl=300
events_ttl == 300
\* abi_service.py:79 and 87, ttl=86400 * 7
abi_ttl == 86400 * 7

\* ------------------------------------------------------------ bounds
\* The largest number of logs the contract has emitted on the chain.
MaxLogs == 2
\* How many tasks later than the oldest unanswered get_logs call of a batch a
\* call may be and still be answered before it.
MaxOvertake == 1

\* ------------------------------------------------------------ inputs
\* from_block of the request (schemas.py: from_block > 0).
FromBlocks == {1, 1500}
\* head - from_block for the short histories (1, 1, 2 and 3 chunks) ...
SmallSpans == {0, 1999, 2000, 4500}
\* ... and for the long ones (101 chunks and more: the batch fills).
LargeSpans == {200000, 204000, 3030000}
\* ... and for a history of 61 chunks, less than a batch.
MidSpans == {121999}
\* The logs a contract may have emitted, in the order the node returns them
\* (off is the distance of the log's block from from_block; sig is the event
\* whose signature hash is the first topic, "none" for a log without topics;
\* decodable is whether process_log succeeds on it).
LogPool ==
  << [off |-> 2500,   logIndex |-> 1, sig |-> "Transfer", decodable |-> TRUE],
     [off |-> 2500,   logIndex |-> 0, sig |-> "Approval", decodable |-> TRUE],
     [off |-> 0,      logIndex |-> 3, sig |-> "Transfer", decodable |-> FALSE],
     [off |-> 1999,   logIndex |-> 0, sig |-> "none",     decodable |-> FALSE],
     [off |-> 100,    logIndex |-> 0, sig |-> "Transfer", decodable |-> TRUE],
     [off |-> 201000, logIndex |-> 2, sig |-> "Transfer", decodable |-> TRUE],
     [off |-> 203000, logIndex |-> 0, sig |-> "Transfer", decodable |-> TRUE],
     [off |-> 120500, logIndex |-> 0, sig |-> "Transfer", decodable |-> TRUE],
     [off |-> 1,      logIndex |-> 0, sig |-> "Transfer", decodable |-> TRUE],
     [off |-> 2001,   logIndex |-> 0, sig |-> "Transfer", decodable |-> TRUE] >>
\* The logs of LogPool a short and a long history draw from.
SmallPool == {1, 2, 3, 4}
LargePool == {5, 6, 7}
MidPool == {8}
\* Distances from from_block of a block whose inclusion makes getLogs fail.
SmallFaults == {{}, {2500}}
LargeFaults == {{}, {150500}, {201500}}
\* Histories of several full batches, and nodes that refuse some getLogs calls:
\* every call of the second batch (the batch planned with the stride doubled),
\* or the first 60 calls of the first batch.
OutageSpans == {600000, 5030000}
OutageFaults ==
  { {},
    {200000 + 2 * chunk_size * k : k \in 0..(batch_size - 1)},
    {chunk_size * k : k \in 0..59} }
\* An entry of an interface (ABI): its type and its name.
Fn(n) == [type |-> "function", name |-> n]
Ev(n) == [type |-> "event", name |-> n]
\* The interface with the Transfer event only.
TransferAbi == << Ev("Transfer") >>
\* The interfaces the explorer may hold for the contract of an events query.
ExplorerAbis == { <<>>, TransferAbi }
\* The interfaces the explorer may hold for a contract whose interface is resolved.
AbiPool ==
  { <<>>,
    TransferAbi,
    << Fn("implementation"), Fn("upgradeTo") >>,
    << Fn("implementation") >>,
    << Fn("implementation"), Ev("Transfer") >>,
    << Fn("implementation"), Fn("implementation") >>,
    << Ev("implementation"), Ev("upgradeTo"), Fn("upgradeToAndCall") >>,
    << Fn("upgradeTo"), Fn("upgradeToAndCall"), Ev("Upgraded") >>,
    << Fn("implementation"), Fn("upgradeTo"), Fn("upgradeToAndCall"), Ev("Upgraded") >> }
\* The interfaces the explorer may hold for the implementation address.
ImplAbis == { <<>>, TransferAbi }
\* How a request to the explorer may fail ("none": it answers 200 with status
\* "1" and the interface as a JSON string).
ExplorerFaults == {"none", "network_error", "non_200", "failure_envelope",
                   "empty_payload", "malformed_payload", "body_not_json"}
\* What get_storage_at may give for the EIP-1967 slot: a failure, or a 32-byte
\* word (high: its first 12 bytes as a number, low: the address in its last 20).
SlotValues ==
  { [ok |-> FALSE, high |-> 0, low |-> "zero"],
    [ok |-> TRUE,  high |-> 0, low |-> "zero"],
    [ok |-> TRUE,  high |-> 0, low |-> "impl"],
    [ok |-> TRUE,  high |-> 1, low |-> "zero"] }
\* What implementation().call() may give: a failure or an address.
ImplCallResults == {"fail", "impl", "zero"}
\* The networks get_abi may be called for; abi_service.py:20-23 knows two.
Networks == {"avalanche", "ethereum", "polygon"}
EXPLORER_APIS == {"avalanche", "ethereum"}
\* The contract address as a request may spell it: checksummed or in lower case.
Addresses == {"0xAbC", "0xabc"}

\* ---- the requests
\* The most requests a behaviour of the HTTP layer serves.
MaxRequests == 2
\* The most blocks the chain grows by in a behaviour.
MaxHeadAdvances == 1
\* usecases.py:67, ttl
balance_ttl == 86400
\* The addresses a request may carry. "0xabc" stands for "0x" and 40 hex digits
\* in lower case, "0xAbC" for the same address in checksum spelling, "0xzzz"
\* for "0x" and 40 characters that are not hex digits, "0x123" for a string
\* that is too short and "invalid_address" for one without the prefix.
RequestAddresses == {"0xabc", "0xAbC", "0xzzz", "0x123", "invalid_address"}
\* A block number field: left out, or an integer.
BlockFields == { [present |-> FALSE, value |-> 0], [present |-> TRUE, value |-> -1],
                 [present |-> TRUE, value |-> 0],  [present |-> TRUE, value |-> 1] }
\* A network field: left out, or a name.
NetworkFields == { [present |-> FALSE, value |-> ""],
                   [present |-> TRUE, value |-> "avalanche"],
                   [present |-> TRUE, value |-> "ethereum"],
                   [present |-> TRUE, value |-> "bitcoin"] }
\* The bodies POSTed to /api/blockchain/balance and /api/blockchain/events.
Requests == [endpoint : {"balance", "events"}, address : RequestAddresses,
             block : BlockFields, network : NetworkFields]
\* An events request every field of which is valid.
DefaultRequest == [endpoint |-> "events", address |-> "0xabc",
                   block |-> [present |-> TRUE, value |-> 1],
                   network |-> [present |-> TRUE, value |-> "avalanche"]]
\* The node calls, other than get_logs, that may fail: eth.block_number at
\* usecases.py:124 and at services.py:120, eth.get_balance at services.py:80.
NodeCalls == {"uc_block_number", "svc_block_number", "get_balance"}
\* The logs of a contract whose history is one block or two chunks long; the
\* last two are in the block after the head.
ApiPool == {3, 9, 10}
ApiSpans == {0, 2000}
ApiFaults == {{}, {0}, {2000}}
\* A proxy's interface, for a proxy that is not resolved.
ProxyAbi == << Fn("implementation"), Fn("upgradeTo") >>

VARIABLES
  \* ---- the environment
  from_block,          \* the request's from_block
  chainHead,           \* web3.eth.block_number
  chainLogs,           \* the contract's logs, in the node's order
  faulty,              \* blocks whose inclusion in a range makes get_logs fail
  explorerAbi,         \* the interface the explorer holds for the contract
  explorerFault,       \* how the explorer's answer for the contract fails, "none" if it does not
  implAbi,             \* the interface the explorer holds for the implementation address
  implFault,           \* how the explorer's answer for the implementation fails
  slotValue,           \* what get_storage_at returns for the EIP-1967 slot, or its failure
  implCallResult,      \* what implementation().call() returns, or its failure
  network,             \* the network of the request
  contract_address,    \* the contract address of the request, as it was sent
  redisUp,             \* whether Redis answers
  \* ---- the cache (Redis), one variable per key prefix
  respCache,           \* "events:..."     -> EventsResponse dump
  chunkCache,          \* "logs_chunk:..." -> {'logs': [...]}
  abiCache,            \* "abi:..."        -> ABI
  \* ---- the query in progress
  pc,                  \* where the request is
  uc_current_block,    \* usecases.py:124 current_block
  abi,                 \* usecases.py:133 abi
  own_abi,             \* abi_service.py:65 abi
  impl_address,        \* abi_service.py:70 impl_address
  impl_abi,            \* abi_service.py:76 impl_abi
  current_block,       \* services.py:120 current_block
  topics_filter,       \* services.py:125 topics_filter
  current_pos,         \* services.py:156
  skip_multiplier,     \* services.py:154
  empty_chunks_in_row, \* services.py:153
  batch_tasks,         \* services.py:157, the (from_block, to_block) of each task
  chunks_results,      \* services.py:150
  task_pc,             \* position of each task of the batch being gathered
  task_result,         \* result of each settled task of that batch
  events,              \* services.py:248
  response,            \* what the request returned
  \* ---- history
  planned,             \* every chunk of this query, in planning order
  getLogsCalls,        \* every range passed to web3.eth.get_logs by this query
  lastObserved,        \* "none", or what the last in-loop gather saw: "hit"/"empty"/"failed"
  abiCalls,            \* every call get_abi made to the explorer and the node, in order
  prevResponse,        \* what the previous request returned
  \* ---- the HTTP layer and the balance query
  request,             \* the request body, as it was sent
  nodeFaults,          \* the calls to the node, other than get_logs, that fail
  http_pc,              \* where the HTTP request is
  http_response,       \* the status code and the error body of the HTTP response
  balanceCalls,        \* every call the balance use case and get_balance_at_block made, in order
  balance_response,    \* what the balance use case returned
  balanceCache,        \* "balance:..."    -> BalanceResponse dump
  headAdvances,        \* how many blocks the chain has grown by
  outcomes,            \* how each request so far ended
  \* ---- a second request for the same events, served concurrently
  other                \* the second use case call: its position and its local variables

chainVars == <<from_block, chainHead, chainLogs, faulty>>
explorerVars == <<explorerAbi, explorerFault, implAbi, implFault, slotValue,
                  implCallResult, network, contract_address>>
envVars == <<chainVars, explorerVars, redisUp>>
abiVars == <<own_abi, impl_address, impl_abi, abiCalls>>
httpVars == <<request, nodeFaults, http_pc, http_response, balanceCalls, balance_response,
             balanceCache, headAdvances, outcomes>>
cacheVars == <<respCache, chunkCache, abiCache>>
loopVars == <<current_pos, skip_multiplier, empty_chunks_in_row, batch_tasks,
              chunks_results, planned, lastObserved>>
taskVars == <<task_pc, task_result>>
vars == <<from_block, chainHead, chainLogs, faulty, explorerAbi, explorerFault,
          implAbi, implFault, slotValue, implCallResult, network,
          contract_address, redisUp,
          respCache, chunkCache, abiCache,
          pc, uc_current_block, abi, own_abi, impl_address, impl_abi, abiCalls,
          current_block, topics_filter,
          current_pos, skip_multiplier, empty_chunks_in_row, batch_tasks,
          chunks_results, task_pc, task_result, events, response,
          planned, getLogsCalls, lastObserved, prevResponse,
          request, nodeFaults, http_pc, http_response, balanceCalls, balance_response,
          balanceCache, headAdvances, outcomes, other>>

Min(a, b) == IF a <= b THEN a ELSE b

NoResponse == [status |-> "none", from_block |-> 0, to_block |-> 0,
               events |-> <<>>, total_events |-> 0]
ServerError == [status |-> "error", from_block |-> 0, to_block |-> 0,
                events |-> <<>>, total_events |-> 0]

\* The logs of LogPool with index in idx, in LogPool's order, as RawLogs of the
\* chain client (hex = FALSE: topics, data and transactionHash are HexBytes).
RECURSIVE PoolLogs(_, _, _)
PoolLogs(i, idx, f) ==
  IF i > Len(LogPool) THEN <<>>
  ELSE (IF i \in idx
        THEN << [blockNumber |-> f + LogPool[i].off, logIndex |-> LogPool[i].logIndex,
                 sig |-> LogPool[i].sig, decodable |-> LogPool[i].decodable,
                 hex |-> FALSE] >>
        ELSE <<>>) \o PoolLogs(i + 1, idx, f)

InitEnv ==
  \E f \in FromBlocks, span \in SmallSpans \cup MidSpans \cup LargeSpans \cup OutageSpans,
     idx \in SUBSET (1..Len(LogPool)),
     flt \in SmallFaults \cup LargeFaults \cup OutageFaults,
     ab \in ExplorerAbis :
    /\ Cardinality(idx) <= MaxLogs
    /\ \A i \in idx : LogPool[i].off <= span
    /\ \A o \in flt : o <= span
    /\ span \in SmallSpans => idx \subseteq SmallPool /\ flt \in SmallFaults
    /\ span \in LargeSpans =>
         /\ idx \subseteq LargePool /\ flt \in LargeFaults
         /\ f = 1 /\ ab = TransferAbi
    /\ span \in MidSpans =>
         /\ idx \subseteq MidPool /\ flt = {}
         /\ f = 1 /\ ab = TransferAbi
    /\ span \in OutageSpans =>
         /\ idx = {} /\ flt \in OutageFaults
         /\ f = 1 /\ ab = TransferAbi
    /\ from_block = f
    /\ chainHead = f + span
    /\ chainLogs = PoolLogs(1, idx, f)
    /\ faulty = {f + o : o \in flt}
    /\ explorerAbi = ab
    /\ explorerFault = "none"
    /\ implAbi = <<>>
    /\ implFault = "none"
    /\ slotValue = [ok |-> FALSE, high |-> 0, low |-> "zero"]
    /\ implCallResult = "fail"
    /\ network = "avalanche"
    /\ contract_address = "0xabc"
    /\ redisUp = TRUE

\* The second use case call before it is made.
NoQuery ==
  [pc |-> "idle", uc_current_block |-> 0, abi |-> <<>>, current_block |-> 0,
   topics_filter |-> <<>>, batch_tasks |-> <<>>, chunks_results |-> <<>>,
   events |-> <<>>, response |-> NoResponse]

InitQuery ==
  /\ pc = "idle"
  /\ uc_current_block = 0
  /\ abi = <<>>
  /\ own_abi = <<>>
  /\ impl_address = "none"
  /\ impl_abi = <<>>
  /\ abiCalls = <<>>
  /\ current_block = 0
  /\ topics_filter = <<>>
  /\ current_pos = 0
  /\ skip_multiplier = 1
  /\ empty_chunks_in_row = 0
  /\ batch_tasks = <<>>
  /\ chunks_results = <<>>
  /\ task_pc = <<>>
  /\ task_result = <<>>
  /\ events = <<>>
  /\ response = NoResponse
  /\ planned = <<>>
  /\ getLogsCalls = <<>>
  /\ lastObserved = "none"
  /\ other = NoQuery

NoHttpResponse == [status_code |-> 0, message |-> "", errors |-> {}]
NoBalance == [status |-> "none", wallet_address |-> "", block_number |-> 0,
              balance_wei |-> 0, balance_eth |-> <<0, 0>>, network |-> ""]
BalanceError == [status |-> "error", wallet_address |-> "", block_number |-> 0,
                 balance_wei |-> 0, balance_eth |-> <<0, 0>>, network |-> ""]

\* The HTTP layer at rest: no request has been served.
InitHttp ==
  /\ http_pc = "waiting"
  /\ http_response = NoHttpResponse
  /\ balanceCalls = <<>>
  /\ balance_response = NoBalance
  /\ balanceCache = <<>>
  /\ headAdvances = 0
  /\ outcomes = <<>>

Init ==
  /\ InitEnv
  /\ request = DefaultRequest
  /\ nodeFaults = {}
  /\ InitHttp
  /\ respCache = <<>>
  /\ chunkCache = <<>>
  /\ abiCache = <<>>
  /\ InitQuery
  /\ prevResponse = NoResponse


\* ------------------------------------------------------------ chain client
\* web3.eth.get_logs({'address', 'fromBlock', 'toBlock', 'topics': [tf]}):
\* the logs of the range whose first topic is one of tf (all of them when the
\* filter is absent).
MatchesFilter(log, tf) ==
  tf = <<>> \/ \E i \in 1..Len(tf) : tf[i] = log.sig

InRange(log, lo, hi) == lo <= log.blockNumber /\ log.blockNumber <= hi

RpcGetLogs(lo, hi, tf) ==
  SelectSeq(chainLogs, LAMBDA l : InRange(l, lo, hi) /\ MatchesFilter(l, tf))

RpcFails(lo, hi) == \E b \in faulty : lo <= b /\ b <= hi

\* ------------------------------------------------------------ cache
\* A cache is the entries Redis holds under one key prefix, each a value with
\* the TTL it was stored with.
CacheHas(c, key) == key \in DOMAIN c

CacheSet(c, key, value) == [k \in DOMAIN c \cup {key} |-> IF k = key THEN value ELSE c[k]]

\* providers.py:66-86, CacheService.get gives a value: Redis answered and holds
\* the key. Every exception of the read is swallowed and None is returned.
CacheHit(c, key) == redisUp /\ CacheHas(c, key)

\* The value CacheService.get gives on a hit.
CacheValue(c, key) == c[key].value

\* providers.py:88-114, CacheService.set: setex(key, ttl, value); every exception
\* of the write is swallowed, and nothing is stored.
CacheStore(c, key, value, ttl) ==
  IF redisUp THEN CacheSet(c, key, [value |-> value, ttl |-> ttl]) ELSE c

\* ------------------------------------------------------------ _fetch_logs_chunk
\* ChunkKey without the block range: one key for every chunk of the query.
ChunkKey_NoRange(lo, hi, tf) == <<0, 0, tf>>

\* services.py:343: the cache key of a chunk
ChunkKey(lo, hi, tf) == <<lo, hi, tf>>

\* services.py:371-381: every HexBytes field becomes its hex string.
SerializeLogs(logs) == [i \in 1..Len(logs) |-> [logs[i] EXCEPT !.hex = TRUE]]

Failed == [ok |-> FALSE, logs |-> <<>>]
Returned(logs) == [ok |-> TRUE, logs |-> logs]

\* FetchFromNode caching every result that is not a failure, empty ones too.
FetchFromNode_CacheEmpty(c, lo, hi, tf) ==
  IF RpcFails(lo, hi)
  THEN [result |-> Failed, cache |-> c]
  ELSE [result |-> Returned(RpcGetLogs(lo, hi, tf)),
        cache |-> CacheStore(c, ChunkKey(lo, hi, tf),
                             SerializeLogs(RpcGetLogs(lo, hi, tf)), logs_chunk_ttl)]

\* services.py:363-389, after a cache miss: the task's result and the cache after it.
FetchFromNode(c, lo, hi, tf) ==
  IF RpcFails(lo, hi)
  THEN [result |-> Failed, cache |-> c]
  ELSE LET logs == RpcGetLogs(lo, hi, tf) IN
       [result |-> Returned(logs),
        cache |-> IF logs # <<>>
                  THEN CacheStore(c, ChunkKey(lo, hi, tf), SerializeLogs(logs),
                                  logs_chunk_ttl)
                  ELSE c]

\* FetchLogsChunk going to the node whatever the cache holds.
FetchLogsChunk_NoCache(c, lo, hi, tf) ==
  [result |-> FetchFromNode(c, lo, hi, tf).result,
   cache |-> FetchFromNode(c, lo, hi, tf).cache,
   called |-> TRUE]

\* services.py:342-389, the whole of _fetch_logs_chunk: the result, the cache
\* after it and whether web3.eth.get_logs was called.
FetchLogsChunk(c, lo, hi, tf) ==
  IF CacheHit(c, ChunkKey(lo, hi, tf))
  THEN [result |-> Returned(CacheValue(c, ChunkKey(lo, hi, tf))), cache |-> c,
        called |-> FALSE]
  ELSE [result |-> FetchFromNode(c, lo, hi, tf).result,
        cache |-> FetchFromNode(c, lo, hi, tf).cache,
        called |-> TRUE]

\* asyncio.gather(*batch_tasks, return_exceptions=True): every task runs to its
\* end, whatever the others do; the results come in the order of the tasks. The
\* tasks of a batch have different keys, so each one meets the cache as it was
\* when the batch started, and the cache keeps what each of them wrote.
Gather(tasks, c, tf) ==
  LET fetch == [i \in 1..Len(tasks) |-> FetchLogsChunk(c, tasks[i][1], tasks[i][2], tf)]
      wrote == {i \in 1..Len(tasks) : fetch[i].cache # c}
  IN [results |-> [i \in 1..Len(tasks) |-> fetch[i].result],
      cache |-> [k \in DOMAIN c \cup {ChunkKey(tasks[i][1], tasks[i][2], tf) : i \in wrote} |->
                   IF k \in DOMAIN c THEN c[k]
                   ELSE LET i == CHOOSE j \in wrote : ChunkKey(tasks[j][1], tasks[j][2], tf) = k
                        IN fetch[i].cache[k]],
      calls |-> SelectSeq(tasks, LAMBDA t : FetchLogsChunk(c, t[1], t[2], tf).called)]

\* ------------------------------------------------------------ adaptive stride
IsEmptyResult(r) == r.ok /\ r.logs = <<>>
HasLogs(r) == r.ok /\ r.logs # <<>>

\* services.py:172-180 and 186: the counts of a batch's results.
batch_empty(results) == Cardinality({i \in 1..Len(results) : IsEmptyResult(results[i])})
batch_with_logs(results) == Cardinality({i \in 1..Len(results) : HasLogs(results[i])})
success(results) == Cardinality({i \in 1..Len(results) : results[i].ok})

\* NextMultiplier without the cap.
NextMultiplier_Uncapped(m) == m * 2

\* services.py:198
NextMultiplier(m) == Min(m * 2, max_skip_multiplier)

\* services.py:195-205: the empty count and the multiplier after a batch.
Adapt(results, row, mult) ==
  IF batch_empty(results) = success(results) /\ batch_empty(results) > 0
  THEN [row |-> row + batch_empty(results),
        mult |-> IF row + batch_empty(results) >= empty_threshold
                 THEN NextMultiplier(mult) ELSE mult]
  ELSE [row |-> 0, mult |-> 1]

\* What the in-loop analysis of a batch saw (services.py:174-180).
Observation(results) ==
  IF batch_with_logs(results) > 0 THEN "hit"
  ELSE IF batch_empty(results) > 0 THEN "empty"
  ELSE "failed"

\* ------------------------------------------------------------ decoding
\* services.py:123, event_abis
EventAbis(a) == SelectSeq(a, LAMBDA item : item.type = "event")

\* services.py:265-268: the log's first topic is the signature hash of an event
\* of the ABI.
InAbi(sig, a) == \E i \in 1..Len(a) : a[i].type = "event" /\ a[i].name = sig

\* services.py:125-131: the signature hashes of the ABI's events, None (no
\* filter) without events.
TopicsFilter(a) == [i \in 1..Len(EventAbis(a)) |-> EventAbis(a)[i].name]

\* services.py:262, 277-278, 287-288, 293: .hex() is called on the log's topics,
\* data and transactionHash. A log read back from the chunk cache holds strings
\* there (SerializeLogs), and str has no hex(): AttributeError.
DecodeRaises(log) == log.hex

\* services.py:258-301: the ContractEventEntity of one raw log.
DecodeLog(log, a) ==
  IF log.sig # "none" /\ InAbi(log.sig, a) /\ log.decodable
  THEN [block_number |-> log.blockNumber, log_index |-> log.logIndex,
        event_name |-> log.sig, args |-> "decoded"]
  ELSE [block_number |-> log.blockNumber, log_index |-> log.logIndex,
        event_name |-> "UnknownEvent", args |-> "topics_data"]

\* services.py:249-255: the raw logs of the chunks that did not fail, in the
\* order of the chunks (S is the set of the chunks with logs still to take).
RECURSIVE LogsOfChunks(_, _)
LogsOfChunks(results, S) ==
  IF S = {} THEN <<>>
  ELSE LET m == CHOOSE i \in S : \A j \in S : i <= j
       IN results[m].logs \o LogsOfChunks(results, S \ {m})

LogsOf(results) ==
  LogsOfChunks(results, {i \in 1..Len(results) : results[i].ok /\ results[i].logs # <<>>})

\* The sort key of services.py:303.
KeyLeq(e1, e2) ==
  \/ e1.block_number < e2.block_number
  \/ e1.block_number = e2.block_number /\ e1.log_index <= e2.log_index

\* list.sort is stable: e goes after the elements whose key is <= its own.
RECURSIVE InsertSorted(_, _)
InsertSorted(e, sorted) ==
  IF sorted = <<>> THEN <<e>>
  ELSE IF KeyLeq(Head(sorted), e)
       THEN <<Head(sorted)>> \o InsertSorted(e, Tail(sorted))
       ELSE <<e>> \o sorted

RECURSIVE SortFrom(_, _, _)
SortFrom(i, evs, acc) ==
  IF i > Len(evs) THEN acc ELSE SortFrom(i + 1, evs, InsertSorted(evs[i], acc))

\* SortEvents leaving the events in the order of the chunks.
SortEvents_Unsorted(evs) == evs

\* services.py:303, events.sort(key=lambda x: (x.block_number, x.log_index))
SortEvents(evs) == SortFrom(1, evs, <<>>)

\* services.py:246-308: the events returned for the gathered results, or the
\* exception that escapes the decoding loop.
DecodeResults(results, a) ==
  LET logs == LogsOf(results) IN
  IF \E i \in 1..Len(logs) : DecodeRaises(logs[i])
  THEN [ok |-> FALSE, events |-> <<>>]
  ELSE [ok |-> TRUE,
        events |-> SortEvents([i \in 1..Len(logs) |-> DecodeLog(logs[i], a)])]

\* usecases.py:154-161
EventsResponse(evs, fb, tb) ==
  [status |-> "ok", from_block |-> fb, to_block |-> tb,
   events |-> evs, total_events |-> Len(evs)]

\* usecases.py:126
ResponseKey(fb, cb) == <<fb, cb>>

\* ------------------------------------------------------------ the use case
\* providers.py:35-40, the networks a chain client exists for.
web3_clients == {"avalanche", "ethereum"}

\* services.py:50, _get_client raises for any other network.
GetClientRaises(net) == net \notin web3_clients

\* to_checksum_address (services.py:79, services.py:119) raises for a string
\* that is not "0x" and 40 hex digits.
ChecksumRaises(addr) == addr \notin {"0xabc", "0xAbC"}

\* The read of eth.block_number at usecases.py:124 does not raise.
BlockNumberRaises_Never(call) == FALSE

\* A read of eth.block_number raises when the node fails it.
BlockNumberRaises(call) == call \in nodeFaults

\* usecases.py:123-130: the head is read; a cached response answers the
\* request. An exception of _get_client or of the read escapes the use case.
UcStart ==
  /\ pc = "idle"
  /\ IF GetClientRaises(network) \/ BlockNumberRaises("uc_block_number")
     THEN /\ uc_current_block' = uc_current_block
          /\ response' = ServerError
          /\ pc' = "done"
     ELSE /\ uc_current_block' = chainHead
          /\ IF CacheHit(respCache, ResponseKey(from_block, chainHead))
             THEN /\ response' = CacheValue(respCache, ResponseKey(from_block, chainHead))
                  /\ pc' = "done"
             ELSE /\ response' = response
                  /\ pc' = "get_abi"
  /\ UNCHANGED <<envVars, httpVars, other, abiVars, cacheVars, abi, current_block, topics_filter,
                 loopVars, taskVars, events, getLogsCalls, prevResponse>>

\* ------------------------------------------------------------ ABIService
\* str.lower() of an address.
Lower(addr) == IF addr = "0xAbC" THEN "0xabc" ELSE addr

\* abi_service.py:56, cache_key
AbiKey(net, addr) == <<"abi", net, Lower(addr)>>

\* The HTTP answer of the explorer to a getabi request for a contract whose
\* interface it holds as iface: error is the request raising (connection
\* error, timeout), status the HTTP status, body_json whether the body parses
\* as JSON, envelope the body's "status" and result the body's "result".
HttpReply(fault, iface) ==
  [error |-> fault = "network_error",
   status |-> IF fault = "non_200" THEN 500 ELSE 200,
   body_json |-> fault # "body_not_json",
   envelope |-> IF fault = "failure_envelope" THEN "0" ELSE "1",
   result |-> CASE fault = "none" -> [kind |-> "json", value |-> iface]
                [] fault = "empty_payload" -> [kind |-> "empty", value |-> <<>>]
                [] OTHER -> [kind |-> "text", value |-> <<>>]]

\* The explorer's answer for an address: it knows the contract under either
\* spelling of its address and the implementation; it holds nothing for the
\* zero address.
ReplyFor(addr) ==
  IF Lower(addr) = Lower(contract_address) THEN HttpReply(explorerFault, explorerAbi)
  ELSE IF addr = "impl" THEN HttpReply(implFault, implAbi)
  ELSE HttpReply("failure_envelope", <<>>)

\* json.loads of the result string: the interface, or JSONDecodeError.
JsonLoads(result) == [raised |-> result.kind # "json", value |-> result.value]

\* abi_service.py:206-211, the body of the try: an exception, the parsed
\* interface returned at line 211, or neither (the code falls through).
ExplorerBody(reply) ==
  IF reply.error THEN [raised |-> TRUE, returned |-> FALSE, value |-> <<>>]
  ELSE IF reply.status # 200 THEN [raised |-> FALSE, returned |-> FALSE, value |-> <<>>]
  ELSE IF ~reply.body_json THEN [raised |-> TRUE, returned |-> FALSE, value |-> <<>>]
  ELSE IF reply.envelope = "1" /\ reply.result.kind # "empty"
       THEN [raised |-> JsonLoads(reply.result).raised,
             returned |-> ~JsonLoads(reply.result).raised,
             value |-> JsonLoads(reply.result).value]
       ELSE [raised |-> FALSE, returned |-> FALSE, value |-> <<>>]

\* FetchFromExplorer without the except clause.
FetchFromExplorer_NoCatch(net, reply) ==
  IF net \notin EXPLORER_APIS
  THEN [abi |-> <<>>, requested |-> FALSE, raised |-> FALSE]
  ELSE [abi |-> IF ExplorerBody(reply).returned THEN ExplorerBody(reply).value ELSE <<>>,
        requested |-> TRUE,
        raised |-> ExplorerBody(reply).raised]

\* abi_service.py:171-215, _fetch_from_explorer: the interface it returns,
\* whether an HTTP request was made and whether an exception escaped.
FetchFromExplorer(net, reply) ==
  IF net \notin EXPLORER_APIS
  THEN [abi |-> <<>>, requested |-> FALSE, raised |-> FALSE]
  ELSE [abi |-> IF ExplorerBody(reply).returned THEN ExplorerBody(reply).value ELSE <<>>,
        requested |-> TRUE,
        raised |-> FALSE]

\* abi_service.py:105
proxy_functions == <<"implementation", "upgradeTo", "upgradeToAndCall">>

\* abi_service.py:106
function_names(a) == {a[i].name : i \in {j \in 1..Len(a) : a[j].type = "function"}}

\* abi_service.py:111
matches(a) ==
  Cardinality({k \in 1..Len(proxy_functions) : proxy_functions[k] \in function_names(a)})

\* IsProxyAbi with one marker being enough.
IsProxyAbi_OneMarker(a) == matches(a) >= 1

\* abi_service.py:91-113, _is_proxy_abi
IsProxyAbi(a) == matches(a) >= 2

\* abi_service.py:148: the last 40 hex digits of the word, as an address.
Last20(word) == word.low

\* SlotAddress keeping the zero address.
SlotAddress_KeepZero(word) == IF word.ok THEN Last20(word) ELSE "none"

\* abi_service.py:145-155: the address read from the EIP-1967 slot, "none"
\* when the read raised or the address is the zero address.
SlotAddress(word) ==
  IF word.ok /\ Last20(word) # "zero" THEN Last20(word) ELSE "none"

\* abi_service.py:161, hasattr(contract.functions, 'implementation')
HasImplementation(a) == "implementation" \in function_names(a)

\* abi_service.py:115-169, _get_implementation_address as a whole.
GetImplementationAddress(a) ==
  IF SlotAddress(slotValue) # "none" THEN SlotAddress(slotValue)
  ELSE IF HasImplementation(a) /\ implCallResult # "fail" THEN implCallResult
  ELSE "none"

\* ImplAbiUsable taking every answer of the explorer.
ImplAbiUsable_Always(ia) == TRUE

\* abi_service.py:77, if impl_abi
ImplAbiUsable(ia) == ia # <<>>

\* abi_service.py:65-89, get_abi after a cache miss, as a whole: the interface
\* it returns.
FetchedAbi ==
  LET own == FetchFromExplorer(network, ReplyFor(contract_address)).abi
      addr == IF own # <<>> /\ IsProxyAbi(own)
              THEN GetImplementationAddress(own) ELSE "none"
      impl == IF addr # "none"
              THEN FetchFromExplorer(network, ReplyFor(addr)).abi ELSE <<>>
  IN IF addr # "none" /\ ImplAbiUsable(impl) THEN impl ELSE own

\* abi_service.py:56-89, get_abi as one step: the cached interface, else the
\* fetched one, which is cached when it is not empty.
GetAbi ==
  /\ pc = "get_abi"
  /\ IF CacheHit(abiCache, AbiKey(network, contract_address))
        /\ CacheValue(abiCache, AbiKey(network, contract_address)) # <<>>
     THEN /\ abi' = CacheValue(abiCache, AbiKey(network, contract_address))
          /\ abiCache' = abiCache
     ELSE /\ abi' = FetchedAbi
          /\ abiCache' = IF FetchedAbi # <<>>
                         THEN CacheStore(abiCache, AbiKey(network, contract_address),
                                         FetchedAbi, abi_ttl)
                         ELSE abiCache
  /\ pc' = "svc_start"
  /\ UNCHANGED <<envVars, httpVars, other, abiVars, respCache, chunkCache, uc_current_block,
                 current_block, topics_filter, loopVars, taskVars, events, response,
                 getLogsCalls, prevResponse>>

\* services.py:117-161: the address is normalised, the head is read again, the
\* filter is built and the loop's variables are set. An exception of
\* to_checksum_address or of the read escapes the use case.
SvcStart ==
  /\ pc = "svc_start"
  /\ IF ChecksumRaises(contract_address) \/ BlockNumberRaises("svc_block_number")
     THEN /\ response' = ServerError
          /\ pc' = "done"
          /\ UNCHANGED <<current_block, topics_filter, current_pos, skip_multiplier,
                         empty_chunks_in_row, batch_tasks, chunks_results>>
     ELSE /\ current_block' = chainHead
          /\ topics_filter' = TopicsFilter(abi)
          /\ current_pos' = from_block
          /\ skip_multiplier' = 1
          /\ empty_chunks_in_row' = 0
          /\ batch_tasks' = <<>>
          /\ chunks_results' = <<>>
          /\ response' = response
          /\ pc' = "loop"
  /\ UNCHANGED <<envVars, httpVars, other, abiVars, cacheVars, uc_current_block, abi, taskVars, events,
                 planned, getLogsCalls, lastObserved, prevResponse>>

\* ------------------------------------------------------------ the range planner
\* EndBlock without the clamp to the head.
EndBlock_Unclamped(pos, cb) == pos + chunk_size - 1

\* services.py:210
EndBlock(pos, cb) == Min(pos + chunk_size - 1, cb)

\* NextPos starting the next chunk on the last block of the stride.
NextPos_Overlapping(pos, mult) == pos + chunk_size * mult - 1

\* services.py:218
NextPos(pos, mult) == pos + chunk_size * mult

\* services.py:164: the in-loop gather is due.
BatchFull == Len(batch_tasks) >= batch_size

\* services.py:209-218: one more chunk is planned and its task created.
PlanChunk ==
  /\ pc = "loop"
  /\ current_pos <= current_block
  /\ ~BatchFull
  /\ batch_tasks' = Append(batch_tasks, <<current_pos, EndBlock(current_pos, current_block)>>)
  /\ planned' = Append(planned, <<current_pos, EndBlock(current_pos, current_block)>>)
  /\ current_pos' = NextPos(current_pos, skip_multiplier)
  /\ UNCHANGED <<envVars, httpVars, other, abiVars, cacheVars, pc, uc_current_block, abi, current_block,
                 topics_filter, skip_multiplier, empty_chunks_in_row, chunks_results,
                 taskVars, events, response, getLogsCalls, lastObserved, prevResponse>>

\* services.py:169-207, after the gather of a full batch: the results are kept,
\* the stride is adapted and the batch is emptied.
AfterBatch(results) ==
  /\ chunks_results' = chunks_results \o results
  /\ empty_chunks_in_row' = Adapt(results, empty_chunks_in_row, skip_multiplier).row
  /\ skip_multiplier' = Adapt(results, empty_chunks_in_row, skip_multiplier).mult
  /\ lastObserved' = Observation(results)
  /\ batch_tasks' = <<>>
  /\ pc' = "loop"

\* AfterFinalBatch with the stride adapted as after a full batch.
AfterFinalBatch_Adapts(results) ==
  /\ chunks_results' = chunks_results \o results
  /\ pc' = "decode"
  /\ empty_chunks_in_row' = Adapt(results, empty_chunks_in_row, skip_multiplier).row
  /\ skip_multiplier' = Adapt(results, empty_chunks_in_row, skip_multiplier).mult
  /\ UNCHANGED <<lastObserved, batch_tasks>>

\* services.py:221-238, after the gather of the last batch.
AfterFinalBatch(results) ==
  /\ chunks_results' = chunks_results \o results
  /\ pc' = "decode"
  /\ UNCHANGED <<empty_chunks_in_row, skip_multiplier, lastObserved, batch_tasks>>

\* services.py:164-207 with the gather taken as one step.
GatherBatch ==
  /\ pc = "loop"
  /\ current_pos <= current_block
  /\ BatchFull
  /\ LET g == Gather(batch_tasks, chunkCache, topics_filter) IN
       /\ AfterBatch(g.results)
       /\ chunkCache' = g.cache
       /\ getLogsCalls' = getLogsCalls \o g.calls
  /\ UNCHANGED <<envVars, httpVars, other, abiVars, respCache, abiCache, uc_current_block, abi, current_block,
                 topics_filter, current_pos, taskVars, events, response, planned,
                 prevResponse>>

\* services.py:221-238 with the gather taken as one step.
FinalGather ==
  /\ pc = "loop"
  /\ current_pos > current_block
  /\ LET g == Gather(batch_tasks, chunkCache, topics_filter) IN
       /\ AfterFinalBatch(g.results)
       /\ chunkCache' = g.cache
       /\ getLogsCalls' = getLogsCalls \o g.calls
  /\ UNCHANGED <<envVars, httpVars, other, abiVars, respCache, abiCache, uc_current_block, abi, current_block,
                 topics_filter, current_pos, taskVars, events, response, planned,
                 prevResponse>>

\* services.py:246-308: the results are decoded and sorted; an exception of the
\* decoding loop escapes the use case and the request ends with status 500.
Decode ==
  /\ pc = "decode"
  /\ IF DecodeResults(chunks_results, abi).ok
     THEN /\ events' = DecodeResults(chunks_results, abi).events
          /\ response' = response
          /\ pc' = "respond"
     ELSE /\ events' = events
          /\ response' = ServerError
          /\ pc' = "done"
  /\ UNCHANGED <<envVars, httpVars, other, abiVars, cacheVars, uc_current_block, abi, current_block,
                 topics_filter, loopVars, taskVars, getLogsCalls, prevResponse>>

\* usecases.py:142-165: the response is built, cached and returned.
Respond ==
  /\ pc = "respond"
  /\ response' = EventsResponse(events, from_block, uc_current_block)
  /\ respCache' = CacheStore(respCache, ResponseKey(from_block, uc_current_block),
                             EventsResponse(events, from_block, uc_current_block),
                             events_ttl)
  /\ pc' = "done"
  /\ UNCHANGED <<envVars, httpVars, other, abiVars, chunkCache, abiCache, uc_current_block, abi, current_block,
                 topics_filter, loopVars, taskVars, events, getLogsCalls, prevResponse>>

\* The request is over; the next one is the same request.
Finish ==
  /\ pc = "done"
  /\ prevResponse' = response
  /\ pc' = "idle"
  /\ uc_current_block' = 0
  /\ abi' = <<>>
  /\ current_block' = 0
  /\ topics_filter' = <<>>
  /\ current_pos' = 0
  /\ skip_multiplier' = 1
  /\ empty_chunks_in_row' = 0
  /\ batch_tasks' = <<>>
  /\ chunks_results' = <<>>
  /\ task_pc' = <<>>
  /\ task_result' = <<>>
  /\ events' = <<>>
  /\ response' = NoResponse
  /\ planned' = <<>>
  /\ getLogsCalls' = <<>>
  /\ lastObserved' = "none"
  /\ UNCHANGED <<envVars, httpVars, other, abiVars, cacheVars>>

\* ------------------------------------------------------------ cache expiry
\* Between two requests the entries of a TTL (usecases.py:163 ttl=300,
\* services.py:382 ttl=3600, abi_service.py:87 ttl=86400*7) may have expired.
ExpireResponses ==
  /\ pc = "idle"
  /\ respCache # <<>>
  /\ respCache' = <<>>
  /\ UNCHANGED <<envVars, httpVars, other, abiVars, chunkCache, abiCache, pc, uc_current_block, abi,
                 current_block, topics_filter, loopVars, taskVars, events, response,
                 getLogsCalls, prevResponse>>

ExpireChunks ==
  /\ pc = "idle"
  /\ chunkCache # <<>>
  /\ chunkCache' = <<>>
  /\ UNCHANGED <<envVars, httpVars, other, abiVars, respCache, abiCache, pc, uc_current_block, abi,
                 current_block, topics_filter, loopVars, taskVars, events, response,
                 getLogsCalls, prevResponse>>

ExpireAbi ==
  /\ pc = "idle"
  /\ abiCache # <<>>
  /\ abiCache' = <<>>
  /\ UNCHANGED <<envVars, httpVars, other, abiVars, respCache, chunkCache, pc, uc_current_block, abi,
                 current_block, topics_filter, loopVars, taskVars, events, response,
                 getLogsCalls, prevResponse>>

\* ------------------------------------------------------------ Redis outages
\* Between two requests Redis may stop answering, and answer again; what it
\* holds is kept.
RedisDown ==
  /\ pc = "idle"
  /\ redisUp
  /\ redisUp' = FALSE
  /\ UNCHANGED <<chainVars, explorerVars, httpVars, other, abiVars, cacheVars, pc, uc_current_block,
                 abi, current_block, topics_filter, loopVars, taskVars, events,
                 response, getLogsCalls, prevResponse>>

RedisBack ==
  /\ pc = "idle"
  /\ ~redisUp
  /\ redisUp' = TRUE
  /\ UNCHANGED <<chainVars, explorerVars, httpVars, other, abiVars, cacheVars, pc, uc_current_block,
                 abi, current_block, topics_filter, loopVars, taskVars, events,
                 response, getLogsCalls, prevResponse>>

Next ==
  \/ UcStart
  \/ GetAbi
  \/ SvcStart
  \/ PlanChunk
  \/ GatherBatch
  \/ FinalGather
  \/ Decode
  \/ Respond
  \/ Finish
  \/ ExpireResponses
  \/ ExpireChunks
  \/ ExpireAbi
  \/ RedisDown
  \/ RedisBack

Spec == Init /\ [][Next]_vars


\* ------------------------------------------------------------ the gather, task by task
\* The tasks of the batch whose request to the cache or to the node is pending.
Waiting(stage) == {i \in 1..Len(task_pc) : task_pc[i] = stage}

\* The get_logs calls of the query that are in flight.
InFlight == Cardinality(Waiting("get_logs"))

\* The lowest member of the non-empty set W of task numbers.
Lowest(W) == CHOOSE i \in W : \A j \in W : i <= j

\* The tasks whose cache read may be answered now: the cache answers in the
\* order of the requests.
CacheAnswerable ==
  LET W == Waiting("cache_get") IN IF W = {} THEN {} ELSE {Lowest(W)}

\* The tasks whose get_logs call may be answered now: the node answers in any
\* order, but no call is overtaken by one made more than MaxOvertake calls later.
NodeAnswerable ==
  LET W == Waiting("get_logs") IN
  IF W = {} THEN {}
  ELSE LET m == Lowest(W) IN {i \in W : i <= m + MaxOvertake}

\* services.py:169 and 224: gather schedules every task of the batch; each runs
\* to its first suspension, the cache read of services.py:347.
StartGather ==
  /\ pc = "loop"
  /\ (current_pos <= current_block /\ BatchFull) \/ current_pos > current_block
  /\ pc' = "gather"
  /\ task_pc' = [i \in 1..Len(batch_tasks) |-> "cache_get"]
  /\ task_result' = [i \in 1..Len(batch_tasks) |-> Failed]
  /\ UNCHANGED <<envVars, httpVars, other, abiVars, cacheVars, uc_current_block, abi, current_block,
                 topics_filter, loopVars, events, response, getLogsCalls, prevResponse>>

\* services.py:345-364: the cache answers task i; on a hit the task returns the
\* cached logs, on a miss it calls web3.eth.get_logs.
TaskCacheGet(i) ==
  /\ pc = "gather"
  /\ i \in CacheAnswerable
  /\ IF ~FetchLogsChunk(chunkCache, batch_tasks[i][1], batch_tasks[i][2],
                         topics_filter).called
     THEN /\ task_pc' = [task_pc EXCEPT ![i] = "settled"]
          /\ task_result' = [task_result EXCEPT ![i] =
               FetchLogsChunk(chunkCache, batch_tasks[i][1], batch_tasks[i][2],
                              topics_filter).result]
          /\ getLogsCalls' = getLogsCalls
     ELSE /\ task_pc' = [task_pc EXCEPT ![i] = "get_logs"]
          /\ task_result' = task_result
          /\ getLogsCalls' = Append(getLogsCalls, batch_tasks[i])
  /\ UNCHANGED <<envVars, httpVars, other, abiVars, cacheVars, pc, uc_current_block, abi, current_block,
                 topics_filter, loopVars, events, response, prevResponse>>

\* AfterNodeAnswer with a failed call tried again.
AfterNodeAnswer_Retry(result) == IF result.ok THEN "settled" ELSE "cache_get"

\* AfterNodeAnswer with the exception of a failed call never delivered.
AfterNodeAnswer_Lost(result) == IF result.ok THEN "settled" ELSE "get_logs"

\* services.py:386-389: the task returns the logs or re-raises the exception;
\* either way it is over.
AfterNodeAnswer(result) == "settled"

\* services.py:364-389: the node answers task i; the task caches a non-empty
\* result and returns it, or raises.
TaskGetLogs(i) ==
  /\ pc = "gather"
  /\ i \in NodeAnswerable
  /\ LET r == FetchFromNode(chunkCache, batch_tasks[i][1], batch_tasks[i][2], topics_filter)
     IN /\ task_result' = [task_result EXCEPT ![i] = r.result]
        /\ chunkCache' = r.cache
        /\ task_pc' = [task_pc EXCEPT ![i] = AfterNodeAnswer(r.result)]
  /\ UNCHANGED <<envVars, httpVars, other, abiVars, respCache, abiCache, pc, uc_current_block, abi,
                 current_block, topics_filter, loopVars, events, response,
                 getLogsCalls, prevResponse>>

\* AllSettled as a wait for the first task to settle.
AllSettled_FirstCompleted == \E i \in 1..Len(task_pc) : task_pc[i] = "settled"

\* services.py:169, 224: gather returns when every task has settled.
AllSettled == \A i \in 1..Len(task_pc) : task_pc[i] = "settled"

\* services.py:169-207: every task of the full batch has settled.
EndGatherBatch ==
  /\ pc = "gather"
  /\ AllSettled
  /\ current_pos <= current_block
  /\ AfterBatch(task_result)
  /\ task_pc' = <<>>
  /\ task_result' = <<>>
  /\ UNCHANGED <<envVars, httpVars, other, abiVars, cacheVars, uc_current_block, abi, current_block,
                 topics_filter, current_pos, events, response, planned,
                 getLogsCalls, prevResponse>>

\* services.py:224-238: every task of the last batch has settled.
EndGatherFinal ==
  /\ pc = "gather"
  /\ AllSettled
  /\ current_pos > current_block
  /\ AfterFinalBatch(task_result)
  /\ task_pc' = <<>>
  /\ task_result' = <<>>
  /\ UNCHANGED <<envVars, httpVars, other, abiVars, cacheVars, uc_current_block, abi, current_block,
                 topics_filter, current_pos, events, response, planned,
                 getLogsCalls, prevResponse>>

\* The histories the task-by-task specification starts from.
TaskSpans == {4500, 204000}

InitTasks ==
  /\ Init
  /\ from_block = 1
  /\ chainHead - from_block \in TaskSpans
  /\ explorerAbi # <<>>
  /\ Len(chainLogs) = MaxLogs
  /\ faulty # {}

NextTasks ==
  \/ UcStart
  \/ GetAbi
  \/ SvcStart
  \/ PlanChunk
  \/ StartGather
  \/ \E i \in CacheAnswerable : TaskCacheGet(i)
  \/ \E i \in NodeAnswerable : TaskGetLogs(i)
  \/ EndGatherBatch
  \/ EndGatherFinal
  \/ Decode
  \/ Respond
  \/ Finish
  \/ ExpireResponses

SpecTasks == InitTasks /\ [][NextTasks]_vars

\* The steps of a query in progress. The event loop runs every coroutine that
\* can go on, and every call to the node, the explorer and the cache returns or
\* raises: a query that can take a step does take one.
QueryStep ==
  \/ GetAbi
  \/ SvcStart
  \/ PlanChunk
  \/ StartGather
  \/ \E i \in CacheAnswerable : TaskCacheGet(i)
  \/ \E i \in NodeAnswerable : TaskGetLogs(i)
  \/ EndGatherBatch
  \/ EndGatherFinal
  \/ Decode
  \/ Respond

\* The histories the fair specification starts from: the short ones, and of the
\* long ones those whose failing chunk is in the first batch and whose first log
\* is in the first chunk.
InitFair ==
  /\ InitTasks
  /\ chainHead - from_block > chunk_size * batch_size
       => /\ faulty = {from_block + 150500}
          /\ chainLogs[1].blockNumber <= from_block + chunk_size

SpecFair == InitFair /\ [][NextTasks]_vars /\ WF_vars(QueryStep)


\* ------------------------------------------------------------ get_abi, call by call
\* What get_abi leaves alone: the chain, the explorer, Redis being up or down,
\* the other caches and the events query.
outsideAbi == <<chainVars, explorerVars, httpVars, other, redisUp, respCache, chunkCache,
                uc_current_block, current_block, topics_filter, loopVars, taskVars,
                events, response, getLogsCalls, prevResponse>>

\* abi_service.py:56-63: get_abi is called and reads the cache.
AbiCacheGet ==
  /\ pc = "idle"
  /\ IF CacheHit(abiCache, AbiKey(network, contract_address))
        /\ CacheValue(abiCache, AbiKey(network, contract_address)) # <<>>
     THEN /\ abi' = CacheValue(abiCache, AbiKey(network, contract_address))
          /\ pc' = "abi_done"
     ELSE /\ abi' = abi
          /\ pc' = "abi_fetch"
  /\ UNCHANGED <<outsideAbi, abiVars, abiCache>>

\* abi_service.py:65-68: the contract's interface is fetched from the explorer
\* and classified.
AbiFetch ==
  /\ pc = "abi_fetch"
  /\ LET f == FetchFromExplorer(network, ReplyFor(contract_address)) IN
       /\ abiCalls' = IF f.requested
                      THEN Append(abiCalls, <<"explorer", contract_address>>)
                      ELSE abiCalls
       /\ IF f.raised
          THEN /\ own_abi' = own_abi
               /\ pc' = "abi_error"
          ELSE /\ own_abi' = f.abi
               /\ pc' = IF f.abi # <<>> /\ IsProxyAbi(f.abi) THEN "abi_slot" ELSE "abi_store"
  /\ UNCHANGED <<outsideAbi, abiCache, abi, impl_address, impl_abi>>

\* abi_service.py:139-155: the EIP-1967 slot is read.
AbiReadSlot ==
  /\ pc = "abi_slot"
  /\ abiCalls' = Append(abiCalls, <<"get_storage_at", contract_address>>)
  /\ IF SlotAddress(slotValue) # "none"
     THEN /\ impl_address' = SlotAddress(slotValue)
          /\ pc' = "abi_fetch_impl"
     ELSE /\ impl_address' = impl_address
          /\ pc' = "abi_impl_call"
  /\ UNCHANGED <<outsideAbi, abiCache, abi, own_abi, impl_abi>>

\* abi_service.py:158-169: implementation() is called, if the proxy's interface
\* has it.
AbiCallImplementation ==
  /\ pc = "abi_impl_call"
  /\ IF HasImplementation(own_abi)
     THEN /\ abiCalls' = Append(abiCalls, <<"implementation", contract_address>>)
          /\ IF implCallResult # "fail"
             THEN /\ impl_address' = implCallResult
                  /\ pc' = "abi_fetch_impl"
             ELSE /\ impl_address' = "none"
                  /\ pc' = "abi_store"
     ELSE /\ abiCalls' = abiCalls
          /\ impl_address' = "none"
          /\ pc' = "abi_store"
  /\ UNCHANGED <<outsideAbi, abiCache, abi, own_abi, impl_abi>>

\* abi_service.py:74-82: the implementation's interface is fetched; when it is
\* usable it is cached under the contract's key and returned.
AbiFetchImpl ==
  /\ pc = "abi_fetch_impl"
  /\ LET f == FetchFromExplorer(network, ReplyFor(impl_address)) IN
       /\ abiCalls' = IF f.requested
                      THEN Append(abiCalls, <<"explorer", impl_address>>)
                      ELSE abiCalls
       /\ IF f.raised
          THEN /\ pc' = "abi_error"
               /\ UNCHANGED <<impl_abi, abi, abiCache>>
          ELSE /\ impl_abi' = f.abi
               /\ IF ImplAbiUsable(f.abi)
                  THEN /\ abiCache' = CacheStore(abiCache, AbiKey(network, contract_address),
                                                 f.abi, abi_ttl)
                       /\ abi' = f.abi
                       /\ pc' = "abi_done"
                  ELSE /\ UNCHANGED <<abi, abiCache>>
                       /\ pc' = "abi_store"
  /\ UNCHANGED <<outsideAbi, own_abi, impl_address>>

\* abi_service.py:86-89: the contract's own interface is cached, when it is not
\* empty, and returned.
AbiStore ==
  /\ pc = "abi_store"
  /\ abiCache' = IF own_abi # <<>>
                 THEN CacheStore(abiCache, AbiKey(network, contract_address),
                                 own_abi, abi_ttl)
                 ELSE abiCache
  /\ abi' = own_abi
  /\ pc' = "abi_done"
  /\ UNCHANGED <<outsideAbi, abiVars>>

\* The call is over; the next one is the same call.
AbiFinish ==
  /\ pc \in {"abi_done", "abi_error"}
  /\ pc' = "idle"
  /\ abi' = <<>>
  /\ own_abi' = <<>>
  /\ impl_address' = "none"
  /\ impl_abi' = <<>>
  /\ abiCalls' = <<>>
  /\ UNCHANGED <<outsideAbi, abiCache>>

\* The contracts, explorers and networks get_abi is called for.
InitAbi ==
  /\ from_block = 1
  /\ chainHead = 1
  /\ chainLogs = <<>>
  /\ faulty = {}
  /\ explorerAbi \in AbiPool
  /\ explorerFault \in ExplorerFaults
  /\ explorerFault # "none" => explorerAbi = << Fn("implementation"), Fn("upgradeTo") >>
  /\ implAbi \in ImplAbis
  /\ implFault \in {"none", "network_error"}
  /\ slotValue \in SlotValues
  /\ implCallResult \in ImplCallResults
  /\ network \in Networks
  /\ contract_address \in Addresses
  /\ redisUp = TRUE
  /\ respCache = <<>>
  /\ chunkCache = <<>>
  /\ abiCache = <<>>
  /\ InitQuery
  /\ prevResponse = NoResponse
  /\ request = DefaultRequest
  /\ nodeFaults = {}
  /\ InitHttp

NextAbi ==
  \/ AbiCacheGet
  \/ AbiFetch
  \/ AbiReadSlot
  \/ AbiCallImplementation
  \/ AbiFetchImpl
  \/ AbiStore
  \/ AbiFinish
  \/ ExpireAbi
  \/ RedisDown
  \/ RedisBack

SpecAbi == InitAbi /\ [][NextAbi]_vars


\* ============================================================ the HTTP layer
\* schemas.py:28 and :87, the two conditions of the address validators.
startswith_0x(v) == v \in {"0xabc", "0xAbC", "0xzzz", "0x123"}
len_42(v) == v \in {"0xabc", "0xAbC", "0xzzz"}

\* schemas.py:25-30 and :84-89, validate_address raises.
AddressRejected(v) == ~startswith_0x(v) \/ ~len_42(v)

\* A block number field that lets zero pass (ge=0 in place of gt=0).
BlockRejected_ZeroPasses(b) == ~b.present \/ ~(b.value >= 0)

\* schemas.py:19 and :75, Field(..., gt=0): the field is required and positive.
BlockRejected(b) == ~b.present \/ ~(b.value > 0)

\* A network field that takes any name (str in place of the Literal).
NetworkRejected_AnyName(n) == FALSE

\* schemas.py:20-23 and :80-83, Literal["avalanche", "ethereum"] with a default.
NetworkRejected(n) == n.present /\ n.value \notin {"avalanche", "ethereum"}

\* The names of the fields of the two request schemas.
AddressField(ep) == IF ep = "balance" THEN "wallet_address" ELSE "contract_address"
BlockField(ep) == IF ep = "balance" THEN "block_number" ELSE "from_block"

\* The fields of the body pydantic reports an error for.
ValidationErrors(req) ==
  (IF AddressRejected(req.address) THEN {AddressField(req.endpoint)} ELSE {})
  \cup (IF BlockRejected(req.block) THEN {BlockField(req.endpoint)} ELSE {})
  \cup (IF NetworkRejected(req.network) THEN {"network"} ELSE {})

\* schemas.py:30 and :89, the validated address is returned in lower case.
ValidatedAddress(req) == Lower(req.address)

\* schemas.py:20-23, the default of the network field.
ValidatedNetwork(req) == IF req.network.present THEN req.network.value ELSE "avalanche"

\* exception_handler.py:36-43
ValidationResponse(errs) ==
  [status_code |-> 422, message |-> "Validation error", errors |-> errs]

\* exception_handler.py:115-121
InternalServerError ==
  [status_code |-> 500, message |-> "Internal server error", errors |-> {}]

\* The response of a route that returned its model.
Success == [status_code |-> 200, message |-> "", errors |-> {}]

\* How a request ended: its status code, whether its use case was called, and
\* for an events query the head it read, the chunks it planned, their results,
\* the ranges it asked the node for and the events it returned.
Outcome(code, called) ==
  [status_code |-> code, invoked |-> called, head |-> uc_current_block,
   planned |-> planned, chunks_results |-> chunks_results,
   getLogsCalls |-> getLogsCalls, events |-> response.events]

\* What the HTTP layer and the balance query leave alone.
outsideHttp == <<envVars, other, abiVars, cacheVars, pc, uc_current_block, abi, current_block,
                topics_filter, loopVars, taskVars, events, response, getLogsCalls,
                prevResponse>>

\* router.py:19-46 and :49-76 with FastAPI's validation of the body: a body
\* that fails validation is answered with 422 by validation_exception_handler
\* and the route is not entered; otherwise the route calls its use case.
Receive ==
  /\ http_pc \in {"waiting", "responded"}
  /\ pc = "idle"
  /\ Len(outcomes) < MaxRequests
  /\ balanceCalls' = <<>>
  /\ balance_response' = NoBalance
  /\ IF ValidationErrors(request) # {}
     THEN /\ http_response' = ValidationResponse(ValidationErrors(request))
          /\ outcomes' = Append(outcomes, Outcome(422, FALSE))
          /\ http_pc' = "responded"
     ELSE /\ http_response' = NoHttpResponse
          /\ outcomes' = outcomes
          /\ http_pc' = request.endpoint
  /\ UNCHANGED <<outsideHttp, request, nodeFaults, balanceCache, headAdvances>>

\* router.py:72-76 with exception_handler.py:90-121: the events use case
\* returned its response, or an exception escaped it.
EventsReturn ==
  /\ http_pc = "events"
  /\ pc = "done"
  /\ http_response' = IF response.status = "ok" THEN Success ELSE InternalServerError
  /\ outcomes' = Append(outcomes,
                        Outcome(IF response.status = "ok" THEN 200 ELSE 500, TRUE))
  /\ http_pc' = "responded"
  /\ UNCHANGED <<outsideHttp, request, nodeFaults, balanceCalls, balance_response,
                 balanceCache, headAdvances>>

\* ------------------------------------------------------------ the balance query
\* usecases.py:47, cache_key
BalanceKey(net, addr, bn) == <<"balance", net, addr, bn>>

\* The key of the request's balance.
RequestBalanceKey ==
  BalanceKey(ValidatedNetwork(request), ValidatedAddress(request), request.block.value)

\* What eth.get_balance answers for a wallet at a block, in wei.
WeiAt(addr, bn) == IF addr = "0xabc" THEN 7 * bn ELSE 0

\* services.py:81, web3.from_wei(balance_wei, 'ether'): wei * 10^-18, as the
\* pair of the mantissa and the negated exponent.
from_wei(wei) == <<wei, 18>>

\* services.py:83-89 and usecases.py:59-65
BalanceResponse(addr, bn, net) ==
  [status |-> "ok", wallet_address |-> addr, block_number |-> bn,
   balance_wei |-> WeiAt(addr, bn), balance_eth |-> from_wei(WeiAt(addr, bn)),
   network |-> net]

\* usecases.py:47-51: the cache is read; a cached response answers the request.
BalanceCacheGet ==
  /\ http_pc = "balance"
  /\ balanceCalls' = Append(balanceCalls, "cache.get")
  /\ IF CacheHit(balanceCache, RequestBalanceKey)
     THEN /\ balance_response' = CacheValue(balanceCache, RequestBalanceKey)
          /\ http_pc' = "balance_done"
     ELSE /\ balance_response' = balance_response
          /\ http_pc' = "get_balance_at_block"
  /\ UNCHANGED <<outsideHttp, request, nodeFaults, http_response, balanceCache,
                 headAdvances, outcomes>>

\* The balance is cached whether or not the node answered.
StoreBalance_Always(c, raised) ==
  CacheStore(c, RequestBalanceKey,
             BalanceResponse(ValidatedAddress(request), request.block.value,
                             ValidatedNetwork(request)), balance_ttl)

\* usecases.py:53-67: cache.set is reached only when get_balance_at_block
\* returned.
StoreBalance(c, raised) ==
  IF raised THEN c
  ELSE CacheStore(c, RequestBalanceKey,
                  BalanceResponse(ValidatedAddress(request), request.block.value,
                                  ValidatedNetwork(request)), balance_ttl)

\* usecases.py:53-69 with services.py:77-89: the client is picked, the address
\* normalised, the node asked once; the response is built, cached and returned.
\* An exception of any of the three escapes the use case.
BalanceFetch ==
  /\ http_pc = "get_balance_at_block"
  /\ LET early == GetClientRaises(ValidatedNetwork(request))
                    \/ ChecksumRaises(ValidatedAddress(request))
         raised == early \/ "get_balance" \in nodeFaults
     IN /\ balanceCalls' = balanceCalls \o << "get_balance_at_block" >>
                        \o (IF early THEN <<>> ELSE << "eth.get_balance" >>)
                        \o (IF raised THEN <<>> ELSE << "cache.set" >>)
        /\ balanceCache' = StoreBalance(balanceCache, raised)
        /\ balance_response' =
             IF raised THEN BalanceError
             ELSE BalanceResponse(ValidatedAddress(request), request.block.value,
                                  ValidatedNetwork(request))
  /\ http_pc' = "balance_done"
  /\ UNCHANGED <<outsideHttp, request, nodeFaults, http_response, headAdvances, outcomes>>

\* router.py:42-46 with exception_handler.py:90-121: the balance use case
\* returned its response, or an exception escaped it.
BalanceReturn ==
  /\ http_pc = "balance_done"
  /\ http_response' = IF balance_response.status = "ok" THEN Success
                      ELSE InternalServerError
  /\ outcomes' = Append(outcomes,
                        Outcome(IF balance_response.status = "ok" THEN 200 ELSE 500, TRUE))
  /\ http_pc' = "responded"
  /\ UNCHANGED <<outsideHttp, request, nodeFaults, balanceCalls, balance_response,
                 balanceCache, headAdvances>>

\* Between two requests the balance entries (usecases.py:67 ttl=86400) may
\* have expired.
ExpireBalance ==
  /\ http_pc \in {"waiting", "responded"}
  /\ balanceCache # <<>>
  /\ balanceCache' = <<>>
  /\ UNCHANGED <<outsideHttp, request, nodeFaults, http_pc, http_response, balanceCalls,
                 balance_response, headAdvances, outcomes>>

\* The chain grows by a block: the next read of eth.block_number (usecases.py:124,
\* services.py:120) is one higher, and get_logs returns the logs of the new block.
HeadAdvance ==
  /\ headAdvances < MaxHeadAdvances
  /\ request.endpoint = "events"
  /\ chainHead' = chainHead + 1
  /\ headAdvances' = headAdvances + 1
  /\ UNCHANGED <<from_block, chainLogs, faulty, explorerVars, redisUp, abiVars, cacheVars,
                 pc, uc_current_block, abi, current_block, topics_filter, loopVars,
                 taskVars, events, response, getLogsCalls, prevResponse,
                 request, nodeFaults, http_pc, http_response, balanceCalls, balance_response,
                 balanceCache, outcomes, other>>

\* A request of any shape, for a contract with one block of history and no logs.
InitRequests ==
  /\ request \in Requests
  /\ from_block = (IF request.block.present THEN request.block.value ELSE 1)
  /\ chainHead = 1
  /\ chainLogs = <<>>
  /\ faulty = {}
  /\ explorerAbi = (IF ChecksumRaises(request.address) THEN <<>> ELSE TransferAbi)
  /\ explorerFault = "none"
  /\ nodeFaults \in SUBSET {"get_balance"}
  /\ request.endpoint = "events" => nodeFaults = {}

\* A valid events request, for a contract and collaborators of any shape.
InitEvents ==
  \E span \in ApiSpans, idx \in SUBSET ApiPool, flt \in ApiFaults :
    /\ Cardinality(idx) <= MaxLogs
    /\ \A i \in idx : LogPool[i].off <= span + 1
    /\ \A o \in flt : o <= span
    /\ request = DefaultRequest
    /\ from_block = 1
    /\ chainHead = 1 + span
    /\ chainLogs = PoolLogs(1, idx, 1)
    /\ faulty = {1 + o : o \in flt}
    /\ explorerAbi \in {<<>>, TransferAbi, ProxyAbi}
    /\ explorerFault \in {"none", "network_error"}
    /\ nodeFaults \in SUBSET {"uc_block_number", "svc_block_number"}

InitServed ==
  /\ InitRequests \/ InitEvents
  /\ implAbi = <<>>
  /\ implFault = "none"
  /\ slotValue = [ok |-> FALSE, high |-> 0, low |-> "zero"]
  /\ implCallResult = "fail"
  /\ network = ValidatedNetwork(request)
  /\ contract_address = ValidatedAddress(request)
  /\ redisUp = TRUE
  /\ respCache = <<>>
  /\ chunkCache = <<>>
  /\ abiCache = <<>>
  /\ InitQuery
  /\ prevResponse = NoResponse
  /\ InitHttp

\* A request is served from its validation to its HTTP response; the events
\* use case runs between Receive and EventsReturn, and expiry and outages
\* happen between two requests.
NextHttp ==
  \/ Receive
  \/ (http_pc = "events" /\ UcStart)
  \/ (http_pc = "events" /\ GetAbi)
  \/ (http_pc = "events" /\ SvcStart)
  \/ (http_pc = "events" /\ PlanChunk)
  \/ (http_pc = "events" /\ FinalGather)
  \/ (http_pc = "events" /\ Decode)
  \/ (http_pc = "events" /\ Respond)
  \/ EventsReturn
  \/ (http_pc = "responded" /\ Finish)
  \/ BalanceCacheGet
  \/ BalanceFetch
  \/ BalanceReturn
  \/ (http_pc \in {"waiting", "responded"} /\ ExpireResponses)
  \/ (http_pc \in {"waiting", "responded"} /\ ExpireChunks)
  \/ ExpireBalance
  \/ (http_pc \in {"waiting", "responded"} /\ RedisDown)
  \/ (http_pc \in {"waiting", "responded"} /\ RedisBack)
  \/ HeadAdvance

SpecHttp == InitServed /\ [][NextHttp]_vars


\* ------------------------------------------------------------ two concurrent requests
\* A second request for the same events is served while the first one is: both
\* use case calls run on one event loop and share Redis. The first call is the
\* query of the variables above; the second one keeps its local variables in
\* `other`. A call goes on from one await to the next in one step.
outsideOther == <<envVars, httpVars, abiVars, abiCache, pc, uc_current_block, abi,
                  current_block, topics_filter, loopVars, taskVars, events, response,
                  getLogsCalls, prevResponse>>

\* services.py:163-218 for a history of fewer chunks than a batch: the loop
\* creates every task before its first await, each chunk directly after the
\* one before it.
OtherPlan(fb, cb) ==
  [k \in 1..(IF fb > cb THEN 0 ELSE (cb - fb) \div chunk_size + 1) |->
     <<fb + (k - 1) * chunk_size, EndBlock(fb + (k - 1) * chunk_size, cb)>>]

\* usecases.py:123-130
OtherUcStart ==
  /\ other.pc = "idle"
  /\ IF GetClientRaises(network) \/ BlockNumberRaises("uc_block_number")
     THEN other' = [other EXCEPT !.response = ServerError, !.pc = "done"]
     ELSE IF CacheHit(respCache, ResponseKey(from_block, chainHead))
          THEN other' = [other EXCEPT
                 !.uc_current_block = chainHead,
                 !.response = CacheValue(respCache, ResponseKey(from_block, chainHead)),
                 !.pc = "done"]
          ELSE other' = [other EXCEPT !.uc_current_block = chainHead, !.pc = "get_abi"]
  /\ UNCHANGED <<outsideOther, respCache, chunkCache>>

\* usecases.py:133 and abi_service.py:56-89
OtherGetAbi ==
  /\ other.pc = "get_abi"
  /\ IF CacheHit(abiCache, AbiKey(network, contract_address))
        /\ CacheValue(abiCache, AbiKey(network, contract_address)) # <<>>
     THEN /\ other' = [other EXCEPT
                 !.abi = CacheValue(abiCache, AbiKey(network, contract_address)),
                 !.pc = "svc_start"]
          /\ abiCache' = abiCache
     ELSE /\ other' = [other EXCEPT !.abi = FetchedAbi, !.pc = "svc_start"]
          /\ abiCache' = IF FetchedAbi # <<>>
                         THEN CacheStore(abiCache, AbiKey(network, contract_address),
                                         FetchedAbi, abi_ttl)
                         ELSE abiCache
  /\ UNCHANGED <<envVars, httpVars, abiVars, respCache, chunkCache, pc, uc_current_block,
                 abi, current_block, topics_filter, loopVars, taskVars, events, response,
                 getLogsCalls, prevResponse>>

\* services.py:117-224: the head is read again, the filter is built, the chunks
\* are planned and the gather of the only batch starts.
OtherSvcStart ==
  /\ other.pc = "svc_start"
  /\ IF ChecksumRaises(contract_address) \/ BlockNumberRaises("svc_block_number")
     THEN other' = [other EXCEPT !.response = ServerError, !.pc = "done"]
     ELSE other' = [other EXCEPT
            !.current_block = chainHead,
            !.topics_filter = TopicsFilter(other.abi),
            !.batch_tasks = OtherPlan(from_block, chainHead),
            !.pc = "gather"]
  /\ UNCHANGED <<outsideOther, respCache, chunkCache>>

\* services.py:342-389: the next task of the batch reads the cache and, on a
\* miss, calls get_logs and caches a non-empty answer.
OtherFetch ==
  /\ other.pc = "gather"
  /\ Len(other.chunks_results) < Len(other.batch_tasks)
  /\ LET t == other.batch_tasks[Len(other.chunks_results) + 1]
         r == FetchLogsChunk(chunkCache, t[1], t[2], other.topics_filter)
     IN /\ other' = [other EXCEPT !.chunks_results = Append(other.chunks_results, r.result)]
        /\ chunkCache' = r.cache
  /\ UNCHANGED <<outsideOther, respCache>>

\* services.py:246-308: every task has settled; the results are decoded and
\* sorted, or the exception of the decoding loop escapes the use case.
OtherDecode ==
  /\ other.pc = "gather"
  /\ Len(other.chunks_results) = Len(other.batch_tasks)
  /\ IF DecodeResults(other.chunks_results, other.abi).ok
     THEN other' = [other EXCEPT
            !.events = DecodeResults(other.chunks_results, other.abi).events,
            !.pc = "respond"]
     ELSE other' = [other EXCEPT !.response = ServerError, !.pc = "done"]
  /\ UNCHANGED <<outsideOther, respCache, chunkCache>>

\* usecases.py:142-165
OtherRespond ==
  /\ other.pc = "respond"
  /\ other' = [other EXCEPT
       !.response = EventsResponse(other.events, from_block, other.uc_current_block),
       !.pc = "done"]
  /\ respCache' = CacheStore(respCache, ResponseKey(from_block, other.uc_current_block),
                             EventsResponse(other.events, from_block, other.uc_current_block),
                             events_ttl)
  /\ UNCHANGED <<outsideOther, chunkCache>>

\* Two requests for the events of a short history, on a chain whose node
\* answers every call.
InitPair ==
  /\ Init
  /\ chainHead - from_block \in SmallSpans
  /\ faulty = {}
  /\ chainLogs # <<>>

\* Both requests arrive before either is answered; their steps interleave.
NextPair ==
  \/ (other.pc # "done" /\ UcStart)
  \/ GetAbi
  \/ SvcStart
  \/ PlanChunk
  \/ FinalGather
  \/ Decode
  \/ Respond
  \/ (pc # "done" /\ OtherUcStart)
  \/ OtherGetAbi
  \/ OtherSvcStart
  \/ OtherFetch
  \/ OtherDecode
  \/ OtherRespond

SpecPair == InitPair /\ [][NextPair]_vars


\* ============================================================ properties
\* The planning loop of the query is over (services.py:163 has exited).
PlanningOver == pc \in {"decode", "respond", "done"} /\ planned # <<>>

\* The chunk planned last.
LastPlanned == planned[Len(planned)]

\* C1: for every from_block <= head and every sequence of chunk results, the
\* chunks planned by get_contract_events cover [from_block, head] with no gaps:
\* every block of the interval lies in some planned chunk. The chunks are
\* planned in the order of their starts, so this is: the first chunk starts at
\* from_block or before, every other chunk starts no later than the block after
\* the end of the chunk before it, and the last chunk ends at the head or after.
C1_CoversWithoutGaps ==
  PlanningOver =>
    /\ planned[1][1] <= from_block
    /\ \A i \in 1..(Len(planned) - 1) : planned[i + 1][1] <= planned[i][2] + 1
    /\ LastPlanned[2] >= current_block

\* C2: every planned chunk satisfies from_block <= start <= end <= head and
\* end - start + 1 <= chunk_size, the starts are strictly increasing in planning
\* order, and no two planned chunks overlap (each ends before the next starts),
\* whatever the stride multiplier.
C2_ChunksWellFormed ==
  /\ \A i \in 1..Len(planned) :
       /\ from_block <= planned[i][1]
       /\ planned[i][1] <= planned[i][2]
       /\ planned[i][2] <= current_block
       /\ planned[i][2] - planned[i][1] + 1 <= chunk_size
  /\ \A i \in 1..(Len(planned) - 1) :
       /\ planned[i][1] < planned[i + 1][1]
       /\ planned[i][2] < planned[i + 1][1]

\* C2's case: chunks have been planned with the multiplier at its largest.
C2_Witness ==
  /\ skip_multiplier = max_skip_multiplier
  /\ Len(planned) > 4 * batch_size
  /\ LastPlanned[1] - planned[Len(planned) - 1][1] = chunk_size * max_skip_multiplier

\* C3: in every reachable state the stride multiplier is at least 1 and at most 10.
C3_MultiplierBounded == 1 <= skip_multiplier /\ skip_multiplier <= 10

\* C3's case: the multiplier was doubled from 8 and stands at the cap.
C3_Witness == skip_multiplier = 10 /\ pc = "loop"

\* C4: the multiplier resets immediately upon any hit: when a gathered batch
\* showed a chunk with at least one log, the multiplier is 1 and the empty count
\* is 0 after it, and every chunk planned while that batch is the last one
\* analysed starts at the block directly after the end of the chunk planned
\* before it.
C4_ResetOnHit ==
  [][ /\ (Len(chunks_results') > Len(chunks_results)
            /\ \E i \in (Len(chunks_results) + 1)..Len(chunks_results') :
                 HasLogs(chunks_results'[i])
            /\ pc' = "loop")
         => (skip_multiplier' = 1 /\ empty_chunks_in_row' = 0)
      /\ (Len(planned') = Len(planned) + 1 /\ Len(planned) > 0
            /\ lastObserved = "hit" /\ skip_multiplier = 1)
         => planned'[Len(planned')][1] = LastPlanned[2] + 1
    ]_vars


\* C5: at every moment of a query the number of get_logs calls in flight is at
\* most the inner permit count (50) and at most the batch size (100).
C5_InFlightWithinPermits == InFlight <= 50 /\ InFlight <= batch_size

\* C6: chunk fetches are dispatched in batches of at most 100 tasks, and the
\* batches run one after another: a batch is left only when every task of it
\* has settled, a batch is started only when no task is unsettled, and so at
\* most 100 chunk fetches of the query are ever in flight.
C6_BatchesSequential ==
  /\ [](/\ Len(batch_tasks) <= 100
        /\ Cardinality({i \in 1..Len(task_pc) : task_pc[i] # "settled"}) <= 100
        /\ InFlight <= 100
        /\ (pc # "gather" => task_pc = <<>>))
  /\ [][ /\ (pc = "gather" /\ pc' # "gather")
            => \A i \in 1..Len(task_pc) : task_pc[i] = "settled"
         /\ (pc # "gather" /\ pc' = "gather")
            => /\ task_pc = <<>>
               /\ Len(task_pc') = Len(batch_tasks)
               /\ Len(task_pc') <= 100
       ]_vars

\* C6's case: the first batch of 100 has been gathered and fetches of the
\* second are in flight.
C6_Witness ==
  /\ pc = "gather"
  /\ Len(chunks_results) = batch_size
  /\ InFlight > 0

\* A chunk of the gathered results is failed.
SomeChunkFailed == \E i \in 1..Len(chunks_results) : ~chunks_results[i].ok

\* C7: a failure of one chunk fetch does not abort the other tasks of its batch
\* nor later batches: the query still returns a result, every planned chunk has
\* settled, the failed chunk contributes no events, and the result has one
\* record for every raw log returned by every chunk that succeeded.
C7_FailureIsolated ==
  (pc = "done" /\ SomeChunkFailed) =>
    /\ response.status = "ok"
    /\ Len(chunks_results) = Len(planned)
    /\ Len(response.events) = Len(LogsOf(chunks_results))
    /\ \A i \in 1..Len(chunks_results) :
         ~chunks_results[i].ok =>
           \A j \in 1..Len(response.events) :
             ~(planned[i][1] <= response.events[j].block_number
               /\ response.events[j].block_number <= planned[i][2])

\* C8: within one query get_logs is called at most once for each planned chunk
\* range (no range occurs twice among the calls, and every call is for a planned
\* chunk): a chunk whose fetch failed is not fetched again.
C8_AtMostOneCallPerChunk ==
  LET called == {getLogsCalls[i] : i \in 1..Len(getLogsCalls)} IN
  /\ Cardinality(called) = Len(getLogsCalls)
  /\ called \subseteq {planned[k] : k \in 1..Len(planned)}

\* C8's case: the query is over, a chunk's fetch failed and its range was
\* passed to get_logs.
C8_Witness ==
  /\ pc = "done"
  /\ \E i \in 1..Len(chunks_results) :
       /\ ~chunks_results[i].ok
       /\ \E k \in 1..Len(getLogsCalls) : getLogsCalls[k] = planned[i]

Sorted(evs) == \A i \in 1..(Len(evs) - 1) : KeyLeq(evs[i], evs[i + 1])

\* C9: the event sequence returned by get_contract_events, and the one of the
\* response, is sorted ascending by (block_number, log_index).
C9_EventsSorted ==
  /\ pc \in {"respond", "done"} => Sorted(events)
  /\ response.status = "ok" => Sorted(response.events)

\* C9's case: the node returned two logs in descending order and both are in
\* the response.
C9_Witness ==
  /\ pc = "done"
  /\ response.status = "ok"
  /\ Len(response.events) >= 2
  /\ LET logs == LogsOf(chunks_results) IN
       \E i \in 1..(Len(logs) - 1) :
         \/ logs[i].blockNumber > logs[i + 1].blockNumber
         \/ /\ logs[i].blockNumber = logs[i + 1].blockNumber
            /\ logs[i].logIndex > logs[i + 1].logIndex

\* C10: two consecutive identical GetEvents calls against an unchanged chain
\* return identical responses, whichever cache entries of the first call are
\* still there when the second runs.
C10_Idempotent ==
  (pc = "done" /\ prevResponse.status # "none") => response = prevResponse

\* The cache key of the i-th task of the batch about to be gathered.
BatchKey(i) == ChunkKey(batch_tasks[i][1], batch_tasks[i][2], topics_filter)

\* The cache key of the i-th planned chunk of the query.
PlannedKey(i) == ChunkKey(planned[i][1], planned[i][2], topics_filter)

\* The query passed the range of its i-th planned chunk to get_logs.
Called(i) == \E k \in 1..Len(getLogsCalls) : getLogsCalls[k] = planned[i]

\* C11: when the chunk cache holds an entry for a chunk's key (and Redis answers
\* the read), _fetch_logs_chunk returns the cached log list and get_logs is not
\* called for the chunk; when the read fails, or the key is absent, get_logs is
\* called for the chunk.
C11_CacheHitSkipsNode ==
  [][ (pc = "loop" /\ Len(chunks_results') > Len(chunks_results)) =>
        LET n == Len(chunks_results)
            newCalls == {getLogsCalls'[k] :
                           k \in (Len(getLogsCalls) + 1)..Len(getLogsCalls')}
        IN \A i \in 1..Len(batch_tasks) :
             /\ (redisUp /\ BatchKey(i) \in DOMAIN chunkCache) =>
                  /\ chunks_results'[n + i] = Returned(chunkCache[BatchKey(i)].value)
                  /\ batch_tasks[i] \notin newCalls
             /\ (~redisUp \/ BatchKey(i) \notin DOMAIN chunkCache) =>
                  batch_tasks[i] \in newCalls
    ]_vars

\* C11's case: the cache holds a chunk's entry, the read of it failed and the
\* chunk was fetched from the node.
C11_Witness ==
  /\ PlanningOver
  /\ ~redisUp
  /\ \E i \in 1..Len(planned) : PlannedKey(i) \in DOMAIN chunkCache /\ Called(i)

\* C12: the chunk cache changes only by expiry or by a gather, and a gather
\* only adds entries: one for a chunk whose get_logs call of this gather
\* succeeded with at least one log, holding those logs with TTL 3600; a chunk
\* whose call returned no log or failed gets no entry, and no entry that was
\* there is changed.
C12_CachesNonEmptyOnly ==
  [][ /\ chunkCache' # chunkCache =>
           \/ chunkCache' = <<>>
           \/ pc = "loop" /\ Len(chunks_results') > Len(chunks_results)
      /\ (pc = "loop" /\ Len(chunks_results') > Len(chunks_results)) =>
           LET n == Len(chunks_results)
               newCalls == {getLogsCalls'[k] :
                              k \in (Len(getLogsCalls) + 1)..Len(getLogsCalls')}
           IN /\ \A key \in DOMAIN chunkCache :
                   key \in DOMAIN chunkCache' /\ chunkCache'[key] = chunkCache[key]
              /\ \A key \in DOMAIN chunkCache' \ DOMAIN chunkCache :
                   \E i \in 1..Len(batch_tasks) :
                     /\ key = BatchKey(i)
                     /\ batch_tasks[i] \in newCalls
                     /\ HasLogs(chunks_results'[n + i])
                     /\ chunkCache'[key].ttl = 3600
                     /\ Len(chunkCache'[key].value) = Len(chunks_results'[n + i].logs)
              /\ \A i \in 1..Len(batch_tasks) :
                   ~HasLogs(chunks_results'[n + i]) =>
                     BatchKey(i) \notin DOMAIN chunkCache' \ DOMAIN chunkCache
    ]_vars

\* C12's case: in one query a chunk with logs was fetched and cached with TTL
\* 3600, an empty chunk and a failed chunk were fetched and not cached.
C12_Witness ==
  /\ pc = "decode"
  /\ \E i \in 1..Len(planned) :
       /\ HasLogs(chunks_results[i]) /\ Called(i)
       /\ PlannedKey(i) \in DOMAIN chunkCache
       /\ chunkCache[PlannedKey(i)].ttl = logs_chunk_ttl
  /\ \E i \in 1..Len(planned) :
       IsEmptyResult(chunks_results[i]) /\ Called(i)
       /\ PlannedKey(i) \notin DOMAIN chunkCache
  /\ \E i \in 1..Len(planned) :
       ~chunks_results[i].ok /\ Called(i) /\ PlannedKey(i) \notin DOMAIN chunkCache

\* The decoder has run on the chunks of the query.
Decoded == PlanningOver /\ pc \in {"respond", "done"}

\* The event record of the raw log is among the decoded events with the name
\* and the args given.
HasRecord(log, name, args) ==
  \E j \in 1..Len(events) :
    /\ events[j].block_number = log.blockNumber
    /\ events[j].log_index = log.logIndex
    /\ events[j].event_name = name
    /\ events[j].args = args

\* C13: decoding never aborts the batch: once the decoder has run, no exception
\* has escaped get_contract_events, there is one event record for every raw log
\* of the gathered chunks, and a log whose first topic is a known signature but
\* which fails to decode has a record that carries none of the interface's event
\* names and whose args are {topics, data}.
C13_DecodeNeverAborts ==
  Decoded =>
    /\ response.status # "error"
    /\ Len(events) = Len(LogsOf(chunks_results))
    /\ \A k \in 1..Len(LogsOf(chunks_results)) :
         LET log == LogsOf(chunks_results)[k] IN
         (log.sig # "none" /\ InAbi(log.sig, abi) /\ ~log.decodable) =>
           \E j \in 1..Len(events) :
             /\ events[j].block_number = log.blockNumber
             /\ events[j].log_index = log.logIndex
             /\ ~InAbi(events[j].event_name, abi)
             /\ events[j].args = "topics_data"

\* C14: a raw log whose first topic matches no known event signature hash has
\* an event record with event name "unknown" and args with exactly the keys
\* topics and data.
C14_UnknownRecord ==
  Decoded =>
    \A k \in 1..Len(LogsOf(chunks_results)) :
      LET log == LogsOf(chunks_results)[k] IN
      (log.sig # "none" /\ ~InAbi(log.sig, abi)) => HasRecord(log, "unknown", "topics_data")

\* C15: the final chunk is always included: the chunk planned last ends exactly
\* at the head, whatever the chunk results were.
C15_LastChunkEndsAtHead == PlanningOver => LastPlanned[2] = current_block

\* C16: when the chunk results of a query are 60 consecutive empty chunks
\* followed by a non-empty chunk, the multiplier is at least 2 before the
\* non-empty chunk is observed and 1 directly after it.
C16_RaisedBeforeHit ==
  [][ (/\ Len(chunks_results) < 61
       /\ Len(chunks_results') >= 61
       /\ \A i \in 1..60 : IsEmptyResult(chunks_results'[i])
       /\ HasLogs(chunks_results'[61]))
      => (skip_multiplier >= 2 /\ skip_multiplier' = 1)
    ]_vars

\* The markers of a proxy that occur as names of function entries of a.
FunctionMarkers(a) ==
  {n \in {"implementation", "upgradeTo", "upgradeToAndCall"} :
     \E i \in 1..Len(a) : a[i].type = "function" /\ a[i].name = n}

\* get_abi has read the EIP-1967 slot, has called implementation().
SlotWasRead == \E k \in 1..Len(abiCalls) : abiCalls[k][1] = "get_storage_at"
ImplWasCalled == \E k \in 1..Len(abiCalls) : abiCalls[k][1] = "implementation"

\* get_abi has fetched a non-empty interface for the contract and classified it.
Classified ==
  /\ own_abi # <<>>
  /\ pc \in {"abi_slot", "abi_impl_call", "abi_fetch_impl", "abi_store", "abi_done"}

\* get_abi treats the contract as a proxy: it goes on to resolve the
\* implementation address.
TreatedAsProxy == pc = "abi_slot" \/ SlotWasRead

\* C17: an interface is classified as a proxy exactly when at least 2 of the 3
\* names implementation, upgradeTo, upgradeToAndCall occur among its entries of
\* type function: {implementation, upgradeTo} is a proxy, {implementation} alone
\* is not, and events with these names do not count.
C17_ProxyHeuristic ==
  Classified =>
    /\ TreatedAsProxy <=> Cardinality(FunctionMarkers(own_abi)) >= 2
    /\ own_abi = << Fn("implementation"), Fn("upgradeTo") >> => TreatedAsProxy
    /\ own_abi = << Fn("implementation") >> => ~TreatedAsProxy
    /\ own_abi = << Ev("implementation"), Ev("upgradeTo"), Fn("upgradeToAndCall") >>
         => ~TreatedAsProxy

\* C17's case: the interface with the functions implementation and upgradeTo
\* has just been classified.
C17_Witness ==
  pc = "abi_slot" /\ own_abi = << Fn("implementation"), Fn("upgradeTo") >>

\* C18: the EIP-1967 slot is read first; when its last 20 bytes are not all
\* zero they are the implementation address and implementation() is not called;
\* implementation() is called only after the slot read, and only when that read
\* failed or gave the zero address; when both steps fail there is no address
\* and get_abi goes on.
C18_SlotThenCall ==
  /\ ImplWasCalled =>
       /\ \E j, k \in 1..Len(abiCalls) :
            j < k /\ abiCalls[j][1] = "get_storage_at" /\ abiCalls[k][1] = "implementation"
       /\ ~slotValue.ok \/ slotValue.low = "zero"
  /\ (SlotWasRead /\ slotValue.ok /\ slotValue.low # "zero") =>
       impl_address = slotValue.low /\ ~ImplWasCalled
  /\ (/\ SlotWasRead
      /\ pc # "abi_impl_call"
      /\ ~slotValue.ok \/ slotValue.low = "zero"
      /\ implCallResult = "fail" \/ "implementation" \notin FunctionMarkers(own_abi))
     => impl_address = "none" /\ pc \in {"abi_store", "abi_done"}

\* C18's case: the slot held the zero address under non-zero high bytes,
\* implementation() was called and failed.
C18_Witness ==
  /\ pc = "abi_store"
  /\ ImplWasCalled
  /\ slotValue.ok /\ slotValue.high = 1
  /\ implCallResult = "fail"
  /\ impl_address = "none"

\* get_abi has returned after a cache miss.
AbiMissed == pc = "abi_done" /\ (abiCalls # <<>> \/ abi = <<>>)

\* What the explorer gives for the contract, and the implementation address
\* and interface the node and the explorer give for it.
OwnIface ==
  IF network \in {"avalanche", "ethereum"} /\ explorerFault = "none"
  THEN explorerAbi ELSE <<>>
FoundAddress ==
  IF slotValue.ok /\ slotValue.low # "zero" THEN slotValue.low
  ELSE IF "implementation" \in FunctionMarkers(OwnIface) /\ implCallResult # "fail"
       THEN implCallResult
       ELSE "none"
ImplIface ==
  IF FoundAddress = "impl" /\ implFault = "none" THEN implAbi ELSE <<>>

\* The implementation's interface is to be used.
UsesImpl ==
  /\ Cardinality(FunctionMarkers(OwnIface)) >= 2
  /\ FoundAddress # "none"
  /\ ImplIface # <<>>

OwnFetched ==
  pc \in {"abi_slot", "abi_impl_call", "abi_fetch_impl", "abi_store"} \/ AbiMissed

Received == http_pc # "waiting"

\* The use case of the request was called, or is running.
UseCaseReached ==
  \/ http_pc \in {"events", "balance", "get_balance_at_block", "balance_done"}
  \/ \E k \in 1..Len(outcomes) : outcomes[k].invoked

\* The request is answered, with a validation response.
Rejected422 == http_pc = "responded" /\ http_response.status_code = 422

\* C21: a balance or events request whose address is not one the chain client
\* can checksum-normalise is rejected with a 422 validation response, and
\* neither its use case nor the chain client is reached.
C21_MalformedAddressRejected ==
  (Received /\ ChecksumRaises(request.address)) =>
    /\ Rejected422
    /\ ~UseCaseReached
    /\ uc_current_block = 0 /\ balanceCalls = <<>> /\ abi = <<>>

\* C22: a balance request is accepted only if block_number is present and
\* positive, an events request only if from_block is: a missing, zero or
\* negative block number is answered 422, with an error for that field, and
\* the use case is never called.
C22_BlockNumberRequired ==
  (Received /\ (~request.block.present \/ request.block.value <= 0)) =>
    /\ Rejected422
    /\ BlockField(request.endpoint) \in http_response.errors
    /\ ~UseCaseReached

\* A request whose only invalid field is a block number of zero was rejected.
C22_Witness ==
  /\ Rejected422
  /\ request.block.present /\ request.block.value = 0
  /\ http_response.errors = {BlockField(request.endpoint)}
  /\ Len(outcomes) = 1

\* C23: a request naming a network other than avalanche and ethereum is
\* answered 422, with an error for the network field, before any use case
\* runs: the chain client, the explorer and the cache are not called for it.
C23_UnsupportedNetworkRejected ==
  (Received /\ request.network.present
     /\ request.network.value \notin {"avalanche", "ethereum"}) =>
    /\ Rejected422
    /\ "network" \in http_response.errors
    /\ ~UseCaseReached
    /\ pc = "idle" /\ uc_current_block = 0 /\ getLogsCalls = <<>>
    /\ balanceCalls = <<>>
    /\ respCache = <<>> /\ chunkCache = <<>> /\ abiCache = <<>> /\ balanceCache = <<>>

\* A request whose only invalid field names the network bitcoin was rejected.
C23_Witness ==
  /\ Rejected422
  /\ request.network.value = "bitcoin"
  /\ http_response.errors = {"network"}
  /\ Len(outcomes) = 1

\* C24: if the cache is unreachable while a GetEvents or GetBalance query runs
\* (its get or set fails), the whole query fails instead of returning a result.
C24_CacheOutageIsFatal ==
  /\ (http_pc = "events" /\ pc = "done" /\ ~redisUp) => response.status = "error"
  /\ (http_pc = "balance_done" /\ ~redisUp) => balance_response.status = "error"

\* C25: if the read of the head at the start of GetEvents fails, the query
\* fails as a whole: the request ends with status 500, no interface is
\* resolved, no chunk is planned or fetched and nothing is written to the
\* cache of decoded responses.
C25_HeadReadFailureIsFatal ==
  "uc_block_number" \in nodeFaults =>
    /\ pc \in {"idle", "done"}
    /\ pc = "done" => response = ServerError
    /\ \A k \in 1..Len(outcomes) : outcomes[k].status_code = 500
    /\ abi = <<>> /\ abiCache = <<>>
    /\ planned = <<>> /\ getLogsCalls = <<>> /\ chunkCache = <<>>
    /\ respCache = <<>>

\* An events request whose read of the head failed was answered.
C25_Witness ==
  /\ "uc_block_number" \in nodeFaults
  /\ http_pc = "responded"
  /\ http_response = InternalServerError
  /\ outcomes[Len(outcomes)].invoked

\* The collaborators of the query that ended as o degraded: the explorer
\* failed, the contract is a proxy that was not resolved, or a chunk failed.
Degraded(o) ==
  \/ explorerFault # "none"
  \/ explorerAbi = ProxyAbi
  \/ \E i \in 1..Len(o.chunks_results) : ~o.chunks_results[i].ok

\* C26: every request ends in exactly one of three ways: a validation failure
\* gives 422 with the list of the fields in error, an exception escaping the
\* use case gives 500 with the message "Internal server error", and a query
\* whose collaborators only degraded (explorer failure, unresolved proxy,
\* failed chunk) gives a success response.
C26_OutcomeClasses ==
  http_pc = "responded" =>
    LET o == outcomes[Len(outcomes)] IN
    /\ http_response.status_code \in {200, 422, 500}
    /\ http_response.status_code = 422 <=> ValidationErrors(request) # {}
    /\ http_response.status_code = 422 =>
         /\ http_response = ValidationResponse(ValidationErrors(request))
         /\ ~o.invoked
    /\ http_response.status_code = 500 =>
         http_response = InternalServerError /\ o.invoked
    /\ (o.invoked /\ Degraded(o) /\ nodeFaults = {}
          /\ ~ChecksumRaises(request.address)) =>
         http_response.status_code = 200

\* How many times a call is in the calls of the balance query.
CallCount(call) ==
  Cardinality({i \in 1..Len(balanceCalls) : balanceCalls[i] = call})

\* C27: GetBalance with a cached entry for (network, address, blockNumber)
\* returns the cached response without calling the chain client; on a miss it
\* asks for the balance exactly once and stores the response with a TTL of
\* 86400 seconds; when the balance cannot be got nothing is written to the cache.
C27_BalanceCache ==
  [][ /\ (http_pc = "balance" /\ CacheHit(balanceCache, RequestBalanceKey)) =>
           /\ http_pc' = "balance_done"
           /\ balance_response' = CacheValue(balanceCache, RequestBalanceKey)
           /\ balanceCalls' = << "cache.get" >>
           /\ balanceCache' = balanceCache
      /\ (http_pc = "balance" /\ ~CacheHit(balanceCache, RequestBalanceKey)) =>
           http_pc' = "get_balance_at_block"
      /\ http_pc = "get_balance_at_block" =>
           /\ http_pc' = "balance_done"
           /\ CallCount("get_balance_at_block")' = 1
           /\ CallCount("eth.get_balance")' <= 1
           /\ IF balance_response'.status = "ok"
              THEN /\ CallCount("eth.get_balance")' = 1
                   /\ CallCount("cache.set")' = 1
                   /\ balance_response'.balance_wei
                        = WeiAt(ValidatedAddress(request), request.block.value)
                   /\ redisUp =>
                        /\ CacheHas(balanceCache', RequestBalanceKey)
                        /\ balanceCache'[RequestBalanceKey]
                             = [value |-> balance_response', ttl |-> 86400]
              ELSE /\ CallCount("cache.set")' = 0
                   /\ balanceCache' = balanceCache
    ]_vars

\* A second balance request was answered from the entry the first one stored.
C27_Witness ==
  /\ http_pc = "balance_done"
  /\ Len(outcomes) = 1 /\ outcomes[1].status_code = 200
  /\ balanceCalls = << "cache.get" >>
  /\ balance_response.status = "ok"

\* C28: every event of a GetEvents response lies between the request's
\* from_block and the to_block the response reports, also when the chain head
\* advances while the query is running.
C28_EventsWithinReportedRange ==
  (pc = "done" /\ response.status = "ok") =>
    \A i \in 1..Len(response.events) :
      /\ response.from_block <= response.events[i].block_number
      /\ response.events[i].block_number <= response.to_block

\* The i-th chunk of the query was read back from the chunk cache.
FromCache(i) == chunks_results[i].ok /\ ~Called(i)

\* C29: get_contract_events gives the same event records for a chunk whether
\* its raw logs came from the node or were read back from the entry an earlier
\* query cached under the same key: a query that reads a chunk from the cache
\* succeeds, and has the record of every log the node returns for that chunk.
C29_CacheTransparent ==
  (pc = "done" /\ PlanningOver /\ \E i \in 1..Len(planned) : FromCache(i)) =>
    /\ response.status = "ok"
    /\ \A i \in 1..Len(planned) :
         FromCache(i) =>
           LET logs == RpcGetLogs(planned[i][1], planned[i][2], topics_filter) IN
           \A k \in 1..Len(logs) :
             \E j \in 1..Len(response.events) :
               response.events[j] = DecodeLog(logs[k], abi)

\* The range r is among the ranges the query that ended as o asked the node for.
AskedFor(o, r) == \E c \in 1..Len(o.getLogsCalls) : o.getLogsCalls[c] = r

\* C30: after a GetEvents query in which the fetch of some chunk failed, the
\* next identical request that reads the same head asks the node for that
\* chunk again: it is not answered from a cached response that lacks the
\* chunk's events.
C30_FailedChunkRefetched ==
  \A k \in 1..(Len(outcomes) - 1) :
    \A i \in 1..Len(outcomes[k].chunks_results) :
      (/\ ~outcomes[k].chunks_results[i].ok
       /\ outcomes[k + 1].invoked
       /\ outcomes[k + 1].head = outcomes[k].head) =>
        AskedFor(outcomes[k + 1], outcomes[k].planned[i])


\* The results of the batch a step gathered inside the loop (services.py:169).
BatchGathered ==
  /\ pc = "loop" /\ pc' = "loop"
  /\ Len(chunks_results') = Len(chunks_results) + batch_size

NewResults == SubSeq(chunks_results', Len(chunks_results) + 1, Len(chunks_results'))

\* C33: the multiplier is raised only after a completed batch in which every
\* chunk succeeded and returned no logs; a batch containing a failed chunk
\* neither raises the multiplier nor adds to the consecutive-empty count.
C33_FailedChunkNeverRaises ==
  [][ /\ skip_multiplier' > skip_multiplier
         => (BatchGathered /\ \A i \in 1..batch_size : IsEmptyResult(NewResults[i]))
      /\ (BatchGathered /\ \E i \in 1..batch_size : NewResults[i] = Failed)
         => (/\ skip_multiplier' <= skip_multiplier
             /\ empty_chunks_in_row' <= empty_chunks_in_row)
    ]_vars


\* C34: the multiplier goes from a value above 1 back to 1 only after a batch
\* in which at least one chunk returned at least one log; a batch in which no
\* chunk returned a log leaves a raised multiplier raised.
C34_ResetNeedsLog ==
  [][ /\ (pc = "loop" /\ pc' = "loop" /\ skip_multiplier > 1 /\ skip_multiplier' = 1)
         => (BatchGathered /\ \E i \in 1..batch_size : HasLogs(NewResults[i]))
      /\ (BatchGathered /\ skip_multiplier > 1
            /\ \A i \in 1..batch_size : ~HasLogs(NewResults[i]))
         => skip_multiplier' > 1
    ]_vars


\* The successful chunks of the gathered batch were all empty, and there was one.
SuccessesAllEmpty ==
  /\ \E i \in 1..batch_size : NewResults[i].ok
  /\ \A i \in 1..batch_size : NewResults[i].ok => NewResults[i].logs = <<>>

\* C35: within a query the multiplier changes only when a full batch completes;
\* after a batch whose successful chunks were all empty and which brings the
\* consecutive-empty count to 50 or more it is min(2 * previous, 10), while the
\* count is below 50 it is unchanged, and the final batch never changes it.
C35_MultiplierSteps ==
  [][ /\ (skip_multiplier' # skip_multiplier /\ pc' # "idle") => BatchGathered
      /\ (BatchGathered /\ SuccessesAllEmpty /\ empty_chunks_in_row' >= 50)
         => \/ skip_multiplier' = 2 * skip_multiplier /\ skip_multiplier' <= 10
            \/ skip_multiplier' = 10 /\ 2 * skip_multiplier > 10
      /\ (BatchGathered /\ SuccessesAllEmpty /\ empty_chunks_in_row' < 50)
         => skip_multiplier' = skip_multiplier
      /\ (pc = "loop" /\ pc' = "decode")
         => (/\ skip_multiplier' = skip_multiplier
             /\ empty_chunks_in_row' = empty_chunks_in_row)
    ]_vars

\* C35's case: five consecutive empty batches took the multiplier through
\* 1, 2, 4, 8, 10 and the last of them left it at 10.
C35_Witness == pc = "loop" /\ skip_multiplier = 10 /\ empty_chunks_in_row = 500

\* The case below the threshold is reachable too: a batch with 40 empty chunks and 60 failed.
BatchBelowThreshold == pc = "loop" /\ skip_multiplier = 1 /\ empty_chunks_in_row = 40


\* The raw log has a record in the events of the query: under its event's name
\* when its first topic is a signature of the interface (and its data decode),
\* as an unknown event when its first topic is no signature of the interface.
Reported(log) ==
  \E j \in 1..Len(events) :
    /\ events[j].block_number = log.blockNumber
    /\ events[j].log_index = log.logIndex
    /\ (log.sig # "none" /\ InAbi(log.sig, abi) /\ log.decodable)
         => events[j].event_name = log.sig
    /\ (log.sig = "none" \/ ~InAbi(log.sig, abi))
         => events[j].event_name = "UnknownEvent"

\* C36: every log the contract emitted in the block range of a successfully
\* fetched chunk appears in the result of the query, decoded when its first
\* topic is a known signature and as an unknown record otherwise, also when the
\* interface has events and a topic filter is sent to get_logs.
C36_EveryLogReported ==
  (Decoded /\ pc = "done" /\ response.status = "ok")
    => \A i \in 1..Len(planned) :
         chunks_results[i].ok
           => \A k \in 1..Len(chainLogs) :
                InRange(chainLogs[k], planned[i][1], planned[i][2])
                  => Reported(chainLogs[k])


\* No two records of the sequence have the same (block_number, log_index).
NoDuplicates(evs) ==
  Cardinality({<<evs[i].block_number, evs[i].log_index>> : i \in 1..Len(evs)}) = Len(evs)

\* C37: no raw log is reported twice: no two event records of a result of
\* get_contract_events, or of a response, share (block_number, log_index).
C37_NoLogReportedTwice ==
  /\ pc \in {"respond", "done"} => NoDuplicates(events)
  /\ response.status = "ok" => NoDuplicates(response.events)

\* C37's case: a response with the logs of two different chunks.
C37_Witness ==
  /\ pc = "done" /\ response.status = "ok"
  /\ Len(response.events) = 2
  /\ \E i, j \in 1..Len(chunks_results) :
       i # j /\ HasLogs(chunks_results[i]) /\ HasLogs(chunks_results[j])


\* The tasks of the batch that called get_logs.
CalledTasks ==
  {i \in 1..Len(batch_tasks) :
     \E k \in 1..Len(getLogsCalls) : getLogsCalls[k] = batch_tasks[i]}

\* The chunk cache as the batch found it: the cache without the entries that
\* the tasks of the batch wrote after their get_logs calls.
BatchStartCache ==
  [k \in DOMAIN chunkCache \
         {ChunkKey(batch_tasks[i][1], batch_tasks[i][2], topics_filter) : i \in CalledTasks}
     |-> chunkCache[k]]

\* C32: the result of get_contract_events does not depend on the order in which
\* the chunk fetches of a batch complete: whatever the order, the results a
\* gather hands over, the cache it leaves, the multiplier and the empty count
\* after it are those of the batch's tasks taken in the order of the tasks on
\* the cache the batch found; the chunks planned next and the events follow
\* from these alone.
C32_CompletionOrderIrrelevant ==
  [][ (pc = "gather" /\ pc' # "gather")
      => LET g == Gather(batch_tasks, BatchStartCache, topics_filter) IN
         /\ task_result = g.results
         /\ chunkCache = g.cache
         /\ chunks_results' = chunks_results \o g.results
         /\ pc' = "loop"
              => /\ skip_multiplier' = Adapt(g.results, empty_chunks_in_row, skip_multiplier).mult
                 /\ empty_chunks_in_row' = Adapt(g.results, empty_chunks_in_row, skip_multiplier).row
         /\ pc' = "decode"
              => /\ skip_multiplier' = skip_multiplier
                 /\ empty_chunks_in_row' = empty_chunks_in_row
         /\ current_pos' = current_pos /\ planned' = planned
    ]_vars

\* C32's case: the fetches of a batch complete out of the order of the tasks:
\* a task has its logs from the node while the task before it still waits for
\* the node's answer.
C32_Witness ==
  /\ pc = "gather"
  /\ \E i \in 1..(Len(task_pc) - 1) :
       /\ task_pc[i] = "get_logs"
       /\ task_pc[i + 1] = "settled"
       /\ HasLogs(task_result[i + 1])
       /\ i + 1 \in CalledTasks


\* The chunks get_contract_events planned are at most ceil((head - from_block + 1) / S).
WithinChunkBound ==
  planned # <<>> => (Len(planned) - 1) * chunk_size < current_block - from_block + 1

\* Once the results are decoded, every planned chunk has a result and no task
\* of the query is unsettled.
AllFetchedBeforeDecoding ==
  (pc \in {"decode", "respond", "done"} /\ planned # <<>>)
    => /\ Len(chunks_results) = Len(planned)
       /\ task_pc = <<>>
       /\ batch_tasks = <<>> \/ Len(batch_tasks) < batch_size \/ current_pos > current_block

\* C38: every query terminates: a query in progress eventually has its response
\* or its error, it plans at most ceil((head - from_block + 1) / S) chunks, and
\* every planned chunk, those of the final batch included, has been fetched and
\* has settled before the response is built and cached.
C38_QueryTerminates ==
  /\ [](WithinChunkBound /\ AllFetchedBeforeDecoding)
  /\ [][ (pc # "done" /\ pc' = "done" /\ response'.status = "ok" /\ planned # <<>>)
         => (Len(chunks_results) = Len(planned) /\ task_pc = <<>>) ]_vars
  /\ (pc \notin {"idle", "done"}) ~> (pc = "done")

\* C38's case: a query with a full batch and a final partial batch is over and
\* has its response.
C38_Witness ==
  /\ pc = "done" /\ response.status = "ok"
  /\ Len(planned) > batch_size
  /\ Len(chunks_results) = Len(planned)


\* Both requests have been answered.
BothAnswered == pc = "done" /\ other.pc = "done"

\* C31: two identical GetEvents queries running concurrently against an
\* unchanged chain, in any interleaving of their cache reads, cache writes and
\* chunk fetches, both complete successfully with the same response, and the
\* response cache entry left behind equals that response.
C31_ConcurrentQueriesAgree ==
  BothAnswered
    => /\ response.status = "ok"
       /\ other.response = response
       /\ CacheHas(respCache, ResponseKey(from_block, chainHead))
       /\ CacheValue(respCache, ResponseKey(from_block, chainHead)) = response

====
